---- MODULE Spec2Model ----
(***************************************************************************)
(* A model of xpublish's metadata-consolidation and chunk-serving engine:  *)
(* xpublish/utils/zarr.py (chunk-key codec, array-metadata extractor,      *)
(* metadata consolidator, chunk encoder), xpublish/dependencies.py (the    *)
(* cached variable table and metadata document), the zarr plugin's request *)
(* handlers (xpublish/plugins/included/zarr.py) and dataset resolution in  *)
(* xpublish/rest.py.                                                       *)
(*                                                                         *)
(* Eight specifications share the module:                                  *)
(*   SpecChunk      get_data_chunk applied to bounded (array, key, shape)  *)
(*   SpecMeta       create_zmetadata applied, twice, to a bounded dataset  *)
(*   Spec           one Rest instance serving requests through its cache   *)
(*   SpecRace       two concurrent requests for one uncached chunk         *)
(*   SpecCacheInit  threads evaluating the lazy Rest.cache property        *)
(*   SpecUnit       one call of a stateless function on bounded arguments  *)
(*   SpecAccessor   calls of the dataset accessor ds.rest(...)             *)
(*   SpecPlugins    calls of Rest.register_plugin on one plugin manager    *)
(***************************************************************************)
EXTENDS Integers, Sequences, FiniteSets, TLC

VARIABLES
    rest,       \* the Rest instance: how it serves (a collection or a single dataset)
    cache,      \* Rest.cache: resident key -> entry (cachey.Cache.data/heap/nbytes)
    last,       \* outcome of the last request handled by the application
    mds,        \* SpecMeta: the dataset handed to create_zmetadata
    mfirst,     \* SpecMeta: outcome of the first create_zmetadata call
    msecond,    \* SpecMeta: outcome of the second create_zmetadata call
    carr,       \* SpecChunk: the array handed to get_data_chunk
    ckey,       \* SpecChunk: the chunk_id handed to get_data_chunk
    cshape,     \* SpecChunk: the out_shape handed to get_data_chunk
    cres,       \* SpecChunk: outcome of the get_data_chunk call
    racers,     \* SpecRace: the two chunk requests in flight, each with its position
    holder,     \* SpecCacheInit: Rest._cache and the threads evaluating Rest.cache
    pin,        \* SpecUnit: the function called and its arguments
    pout,       \* SpecUnit: outcome of the call
    accessor,   \* SpecAccessor: the dataset's RestAccessor and its Rest object
    manager     \* SpecPlugins: the plugin manager of one Rest instance

serverVars == <<rest, cache, last>>
metaVars == <<mds, mfirst, msecond>>
chunkVars == <<carr, ckey, cshape, cres>>
concVars == <<racers, holder>>
extraVars == <<pin, pout, accessor, manager>>
vars == <<rest, cache, last, mds, mfirst, msecond, carr, ckey, cshape, cres,
          racers, holder, pin, pout, accessor, manager>>

None == "None"

(***************************************************************************)
(* Bounds of the model.                                                    *)
(***************************************************************************)
MaxKeyLen == 3      \* longest chunk_id, in characters, given to get_data_chunk
MaxBlocks == 3      \* most dask blocks along one axis
MaxChunk == 3       \* largest dask block size along one axis
AvailableBytes == 6 \* cache_kws['available_bytes'], in the model's byte unit
MetaNbytes == 1     \* size cachey measures for a cached table or document
CacheThreads == 2   \* threads that evaluate Rest.cache at the same time
MaxAccesses == 2    \* evaluations of Rest.cache by one thread
MaxFilters == 2     \* longest filters list given to encode_chunk
MaxOps == 3         \* operations applied to one accessor or plugin manager
MaxRouters == 2     \* longest routers list given to Rest

(***************************************************************************)
(* Generic helpers.                                                        *)
(***************************************************************************)
RECURSIVE SumSeq(_)
SumSeq(s) == IF s = <<>> THEN 0 ELSE Head(s) + SumSeq(Tail(s))

RECURSIVE SeqsUpTo(_, _)
\* all sequences over S of length 1..n
SeqsUpTo(S, n) ==
    IF n = 0 THEN {}
    ELSE SeqsUpTo(S, n - 1) \cup [1..n -> S]


(***************************************************************************)
(* Strings as character sequences: chunk ids are parsed character by       *)
(* character, so a chunk id is a sequence of one-character strings.        *)
(***************************************************************************)
Digits == {"0", "1"}
KeyAlphabet == Digits \cup {"-", ".", "a"}

DigitVal(c) == IF c = "0" THEN 0 ELSE 1

RECURSIVE JoinChars(_)
\* the str a character sequence stands for
JoinChars(s) == IF s = <<>> THEN "" ELSE Head(s) \o JoinChars(Tail(s))

RECURSIVE Split(_, _)
\* str.split(sep): the tokens between the separators, empty tokens kept
Split(s, sep) ==
    IF \A i \in 1..Len(s) : s[i] # sep THEN <<s>>
    ELSE LET i == CHOOSE j \in 1..Len(s) :
                      s[j] = sep /\ \A k \in 1..(j - 1) : s[k] # sep
         IN  <<SubSeq(s, 1, i - 1)>> \o Split(SubSeq(s, i + 1, Len(s)), sep)

RECURSIVE NatOf(_)
\* value of a non-empty digit sequence, base 10
NatOf(t) == IF Len(t) = 1 THEN DigitVal(t[1])
            ELSE 10 * NatOf(SubSeq(t, 1, Len(t) - 1)) + DigitVal(t[Len(t)])

\* int(token) succeeds: an optional sign followed by one or more digits
IntOk(t) ==
    LET body == IF t # <<>> /\ Head(t) = "-" THEN Tail(t) ELSE t
    IN  body # <<>> /\ \A i \in 1..Len(body) : body[i] \in Digits

\* int(token), for a token IntOk accepts
IntOf(t) == IF Head(t) = "-" THEN 0 - NatOf(Tail(t)) ELSE NatOf(t)

(***************************************************************************)
(* Arrays.  An array is [kind, grid, base]: kind "numpy" (in memory) or    *)
(* "dask" (chunked); grid[k] is the sequence of block sizes along axis k   *)
(* (one block spanning the axis for numpy); the element at index idx is    *)
(* base + its row-major position, so distinct arrays hold distinct data.   *)
(***************************************************************************)
Ndim(a) == Len(a.grid)
Shape(a) == [k \in 1..Ndim(a) |-> SumSeq(a.grid[k])]

RECURSIVE Indices(_)
\* all 0-based index tuples of an array of the given shape
Indices(shape) ==
    IF shape = <<>> THEN {<<>>}
    ELSE {<<i>> \o r : i \in 0..(Head(shape) - 1), r \in Indices(Tail(shape))}

RECURSIVE Linear(_, _)
\* row-major position of idx in an array of the given shape
Linear(idx, shape) ==
    IF idx = <<>> THEN 0
    ELSE Linear(SubSeq(idx, 1, Len(idx) - 1), SubSeq(shape, 1, Len(shape) - 1))
             * shape[Len(shape)] + idx[Len(idx)]

Elem(a, idx) == a.base + Linear(idx, Shape(a))

Zeros(n) == [k \in 1..n |-> 0]

\* the uniform outcome record of the array functions
Raised(exc, msg, expected) ==
    [ok |-> FALSE, exc |-> exc, msg |-> msg, expected |-> expected,
     shape |-> <<>>, data |-> <<>>]
NotCalled == Raised(None, "not called", <<>>)
Returned(shape, data) ==
    [ok |-> TRUE, exc |-> None, msg |-> None, expected |-> <<>>,
     shape |-> shape, data |-> data]

(***************************************************************************)
(* dask.array.Array.blocks[ikeys]: numpy-style indexing of the block grid. *)
(* A negative index counts from the end, missing trailing indices select   *)
(* every block of their axis, an index out of range or too many indices    *)
(* raise IndexError.  The result is [ok, off, size]: per axis the offset   *)
(* and the extent of the selected region.                                  *)
(***************************************************************************)
BlockIndexOk(a, ikeys) ==
    /\ Len(ikeys) <= Ndim(a)
    /\ \A k \in 1..Len(ikeys) :
           /\ ikeys[k] < Len(a.grid[k])
           /\ ikeys[k] >= 0 - Len(a.grid[k])

BlockPos(a, ikeys, k) ==
    IF ikeys[k] < 0 THEN ikeys[k] + Len(a.grid[k]) ELSE ikeys[k]

BlockOff(a, ikeys) ==
    [k \in 1..Ndim(a) |->
        IF k > Len(ikeys) THEN 0
        ELSE SumSeq(SubSeq(a.grid[k], 1, BlockPos(a, ikeys, k)))]

BlockSize(a, ikeys) ==
    [k \in 1..Ndim(a) |->
        IF k > Len(ikeys) THEN SumSeq(a.grid[k])
        ELSE a.grid[k][BlockPos(a, ikeys, k) + 1]]

\* the region of a at offset off with extent size, as an array value
Region(a, off, size) ==
    Returned(size, [idx \in Indices(size) |->
                       Elem(a, [k \in 1..Len(size) |-> off[k] + idx[k]])])

(***************************************************************************)
(* get_data_chunk: the outcomes of one call.  np.empty_like leaves the     *)
(* padding of an edge chunk uninitialized, so a padded call has one        *)
(* outcome per content of the padding.                                     *)
(***************************************************************************)
PadValues == {0, 77}

\* PadChunk without the copy of chunk_data into the new buffer
PadChunk_NoCopy(chunk, out_shape) ==
    {Returned(out_shape, pad) : pad \in [Indices(out_shape) -> PadValues]}

\* new_chunk = np.empty_like(chunk_data, shape=out_shape);
\* new_chunk[write_slice] = chunk_data
PadChunk(chunk, out_shape) ==
    IF \E k \in 1..Len(out_shape) : chunk.shape[k] > out_shape[k]
    THEN {Raised("ValueError", "could not broadcast", <<>>)}
    ELSE LET inside == Indices(chunk.shape)
             outside == Indices(out_shape) \ inside
         IN  {Returned(out_shape,
                       [idx \in Indices(out_shape) |->
                           IF idx \in inside THEN chunk.data[idx] ELSE pad[idx]])
                : pad \in [outside -> PadValues]}

\* FetchChunk with the in-memory key check comparing only the first index
FetchChunk_FirstIndexOnly(da, ikeys) ==
    IF da.kind = "dask"
    THEN IF BlockIndexOk(da, ikeys)
         THEN Region(da, BlockOff(da, ikeys), BlockSize(da, ikeys))
         ELSE Raised("IndexError", "index out of range", <<>>)
    ELSE IF Ndim(da) > 0 /\ ikeys[1] # 0
         THEN Raised("ValueError", "Invalid chunk_id for numpy array",
                     Zeros(Ndim(da)))
         ELSE Region(da, Zeros(Ndim(da)), Shape(da))

\* chunk_data for the parsed key, or the exception raised while fetching it
FetchChunk(da, ikeys) ==
    IF da.kind = "dask"
    THEN IF BlockIndexOk(da, ikeys)
         THEN Region(da, BlockOff(da, ikeys), BlockSize(da, ikeys))
         ELSE Raised("IndexError", "index out of range", <<>>)
    ELSE IF Ndim(da) > 0 /\ ikeys # Zeros(Ndim(da))
         THEN Raised("ValueError", "Invalid chunk_id for numpy array",
                     Zeros(Ndim(da)))
         ELSE Region(da, Zeros(Ndim(da)), Shape(da))

get_data_chunk(da, chunk_id, out_shape) ==
    LET tokens == Split(chunk_id, ".")
    IN  IF \E i \in 1..Len(tokens) : ~IntOk(tokens[i])
        THEN {Raised("ValueError", "invalid literal for int()", <<>>)}
        ELSE LET ikeys == [i \in 1..Len(tokens) |-> IntOf(tokens[i])]
                 chunk_data == FetchChunk(da, ikeys)
             IN  IF ~chunk_data.ok THEN {chunk_data}
                 ELSE IF chunk_data.shape # out_shape
                      THEN PadChunk(chunk_data, out_shape)
                      ELSE {chunk_data}

(***************************************************************************)
(* Datasets.  A dataset is [attrs, vars]: the global attributes (a dict:   *)
(* a function on the keys present) and the variables in declaration order. *)
(* A variable is an array with a name, dims, attrs and encoding dicts.     *)
(* Optional values are <<>> (None) or <<v>>.                               *)
(***************************************************************************)
DictGet(d, k) == IF k \in DOMAIN d THEN <<d[k]>> ELSE <<>>
DictPop(d, k) == [j \in (DOMAIN d) \ {k} |-> d[j]]
DictSet(d, k, v) == [j \in (DOMAIN d) \cup {k} |-> IF j = k THEN v ELSE d[j]]
EmptyDict == [j \in {} |-> 0]

DATASET_ID_ATTR_KEY == "_xpublish_id"
ZARR_METADATA_KEY == ".zmetadata"
array_meta_chars == <<".", "z", "a", "r", "r", "a", "y">>
group_meta_chars == <<".", "z", "g", "r", "o", "u", "p">>
attrs_chars == <<".", "z", "a", "t", "t", "r", "s">>
array_meta_key == JoinChars(array_meta_chars)
group_meta_key == JoinChars(group_meta_chars)
attrs_key == JoinChars(attrs_chars)
default_compressor == "Blosc()"

\* xarray's encode_zarr_variable: a NEW variable whose attrs and encoding
\* are copies; the CF mask coder moves _FillValue from encoding to attrs.
encode_zarr_variable(dvar) ==
    IF "_FillValue" \in DOMAIN dvar.encoding
    THEN [dvar EXCEPT
            !.attrs = DictSet(dvar.attrs, "_FillValue", dvar.encoding["_FillValue"]),
            !.encoding = DictPop(dvar.encoding, "_FillValue")]
    ELSE dvar

\* xarray's _determine_zarr_chunks(enc_chunks, var_chunks, ndim), as called
\* by extract_zarr_variable_encoding: [ok, exc, msg, chunks], chunks optional.
\* (The final-block check under explicit chunks is the one of the releases
\* that raise NotImplementedError; releases without it only accept more.)
ChunksOk(chunks) == [ok |-> TRUE, exc |-> None, msg |-> None, chunks |-> chunks]
ChunksErr(exc, msg) == [ok |-> FALSE, exc |-> exc, msg |-> msg, chunks |-> <<>>]

FirstChunks(grid) == [k \in 1..Len(grid) |-> grid[k][1]]

determine_zarr_chunks_noenc(var_chunks) ==
    IF var_chunks = <<>> THEN ChunksOk(<<>>)
    ELSE IF \E k \in 1..Len(var_chunks) :
                \E i, j \in 1..(Len(var_chunks[k]) - 1) :
                    var_chunks[k][i] # var_chunks[k][j]
         THEN ChunksErr("ValueError", "Zarr requires uniform chunk sizes")
         ELSE IF \E k \in 1..Len(var_chunks) :
                     var_chunks[k][1] < var_chunks[k][Len(var_chunks[k])]
              THEN ChunksErr("ValueError", "Final chunk of Zarr array must be the same size or smaller")
              ELSE ChunksOk(<<FirstChunks(var_chunks)>>)

determine_zarr_chunks(enc_chunks, var_chunks, ndim) ==
    IF enc_chunks = <<>> \/ enc_chunks = <<<<>>>>
    THEN determine_zarr_chunks_noenc(var_chunks)
    ELSE IF Len(enc_chunks[1]) # ndim
         THEN determine_zarr_chunks_noenc(var_chunks)
         ELSE IF var_chunks = <<>> THEN ChunksOk(enc_chunks)
              ELSE IF \E k \in 1..ndim :
                          \E i \in 1..(Len(var_chunks[k]) - 1) :
                              var_chunks[k][i] % enc_chunks[1][k] # 0
                   THEN ChunksErr("NotImplementedError", "Specified zarr chunks would overlap multiple dask chunks")
                   ELSE IF \E k \in 1..ndim :
                               var_chunks[k][Len(var_chunks[k])] > enc_chunks[1][k]
                        THEN ChunksErr("ValueError", "Final chunk of Zarr array must be the same size or smaller")
                        ELSE ChunksOk(enc_chunks)

\* Variable.chunks: the block grid of a dask variable, None otherwise
VarChunks(dvar) == IF dvar.kind = "dask" THEN dvar.grid ELSE <<>>

\* xarray's extract_zarr_variable_encoding(dvar): the encoding restricted to
\* the keys zarr knows, with 'chunks' set to the determined chunks
extract_zarr_variable_encoding(dvar) ==
    LET c == determine_zarr_chunks(DictGet(dvar.encoding, "chunks"),
                                   VarChunks(dvar), Ndim(dvar))
        kept == [j \in (DOMAIN dvar.encoding) \cap {"compressor", "filters"}
                    |-> dvar.encoding[j]]
    IN  [ok |-> c.ok, exc |-> c.exc, msg |-> c.msg, chunks |-> c.chunks,
         encoding |-> kept]

(***************************************************************************)
(* The array-metadata extractor and the metadata consolidator.             *)
(***************************************************************************)
\* _extract_dataset_zattrs without the removal of the internal attribute
extract_dataset_zattrs_KeepsId(dataset) == dataset.attrs

\* _extract_dataset_zattrs
extract_dataset_zattrs(dataset) == DictPop(dataset.attrs, DATASET_ID_ATTR_KEY)

\* _extract_dataarray_zattrs without the removal of _FillValue
extract_dataarray_zattrs_KeepsFill(da) ==
    DictSet(da.attrs, "_ARRAY_DIMENSIONS", da.dims)

\* _extract_dataarray_zattrs
extract_dataarray_zattrs(da) ==
    DictPop(DictSet(da.attrs, "_ARRAY_DIMENSIONS", da.dims), "_FillValue")

\* the names a dataset may use, in alphabetical order: sorted() puts the
\* names of a set in this order
NameOrder == <<"d1", "d2", "lat", "lon", "t", "x">>
SeqToSet(q) == {q[i] : i \in 1..Len(q)}
SortedNames(S) == SelectSeq(NameOrder, LAMBDA n : n \in S)

RECURSIVE JoinNames(_)
\* ' '.join(names)
JoinNames(names) ==
    IF names = <<>> THEN ""
    ELSE IF Len(names) = 1 THEN names[1]
         ELSE names[1] \o " " \o JoinNames(Tail(names))

\* _extract_dataarray_coords with the names joined in iteration order
extract_dataarray_coords_Unsorted(da, zattrs) ==
    LET nondim_coords == SeqToSet(da.coords) \ SeqToSet(da.dims)
    IN  IF da.coords # <<>> /\ nondim_coords # {} /\ da.name \notin nondim_coords
        THEN DictSet(zattrs, "coordinates",
                     JoinNames(SelectSeq(da.coords, LAMBDA n : n \in nondim_coords)))
        ELSE zattrs

\* _extract_dataarray_coords(da, zattrs); da.coords lists the coordinates
\* of dataset[key] in their iteration order
extract_dataarray_coords(da, zattrs) ==
    LET nondim_coords == SeqToSet(da.coords) \ SeqToSet(da.dims)
    IN  IF da.coords # <<>> /\ nondim_coords # {} /\ da.name \notin nondim_coords
        THEN DictSet(zattrs, "coordinates", JoinNames(SortedNames(nondim_coords)))
        ELSE zattrs

\* _extract_fill_value: da.attrs.pop('_FillValue', None); the variable the
\* pop acted on is returned with the value
extract_fill_value(da) ==
    [fill_value |-> DictGet(da.attrs, "_FillValue"),
     da |-> [da EXCEPT !.attrs = DictPop(da.attrs, "_FillValue")]]

\* the descriptor _extract_zarray builds, given the resolved chunks and the
\* extracted fill value
ZarrayMeta(da, enc, chunks, fill_value) ==
    [compressor |-> IF "compressor" \in DOMAIN enc.encoding
                    THEN enc.encoding["compressor"]
                    ELSE IF "compressor" \in DOMAIN da.encoding
                         THEN da.encoding["compressor"]
                         ELSE default_compressor,
     filters |-> IF "filters" \in DOMAIN enc.encoding
                 THEN <<enc.encoding["filters"]>>
                 ELSE DictGet(da.encoding, "filters"),
     chunks |-> chunks,
     fill_value |-> fill_value,
     shape |-> Shape(da)]

\* _extract_zarray without the comparison of the chunks with the dask grid
extract_zarray_NoValidation(da, enc) ==
    LET fv == extract_fill_value(da)
        given == IF enc.chunks = <<>> THEN Shape(da) ELSE enc.chunks[1]
        chunks == IF da.kind = "dask" THEN given ELSE Shape(da)
    IN  [ok |-> TRUE, exc |-> None, msg |-> None, da |-> fv.da,
         meta |-> ZarrayMeta(da, enc, chunks, fv.fill_value)]

\* _extract_zarray(da, encoding, dtype): [ok, exc, msg, da, meta]; da is the
\* variable after the call (its _FillValue popped), meta the descriptor.
\* For an in-memory variable both var_chunks and meta['chunks'] are set to
\* da.shape before they are compared.
extract_zarray(da, enc) ==
    LET fv == extract_fill_value(da)
        given == IF enc.chunks = <<>> THEN Shape(da) ELSE enc.chunks[1]
        var_chunks == IF da.kind = "dask" THEN FirstChunks(da.grid) ELSE Shape(da)
        chunks == IF da.kind = "dask" THEN given ELSE Shape(da)
    IN  IF var_chunks # chunks
        THEN [ok |-> FALSE, exc |-> "ValueError",
              msg |-> "Encoding chunks do not match inferred chunks",
              da |-> fv.da, meta |-> EmptyDict]
        ELSE [ok |-> TRUE, exc |-> None, msg |-> None, da |-> fv.da,
              meta |-> ZarrayMeta(da, enc, chunks, fv.fill_value)]

\* the body of create_zmetadata's loop with _extract_zarray handed the
\* dataset's own variable instead of its encoded copy
zmetadata_var_NoCopy(dvar) ==
    LET enc == extract_zarr_variable_encoding(dvar)
        zarray == extract_zarray(dvar, enc)
    IN  IF ~enc.ok
        THEN [ok |-> FALSE, exc |-> enc.exc, msg |-> enc.msg, dvar |-> dvar,
              zattrs |-> EmptyDict, zarray |-> EmptyDict]
        ELSE [ok |-> zarray.ok, exc |-> zarray.exc, msg |-> zarray.msg,
              dvar |-> zarray.da,
              zattrs |-> extract_dataarray_coords(dvar,
                            extract_dataarray_zattrs(encode_zarr_variable(dvar))),
              zarray |-> zarray.meta]

\* the body of create_zmetadata's loop for one variable: [ok, exc, msg,
\* dvar, zattrs, zarray]; dvar is the dataset's variable after the pass.
\* _extract_zarray pops _FillValue from encoded_da, the copy, so the
\* dataset's variable stays as it was.
zmetadata_var(dvar) ==
    LET encoded_da == encode_zarr_variable(dvar)
        enc == extract_zarr_variable_encoding(dvar)
        zarray == extract_zarray(encoded_da, enc)
    IN  IF ~enc.ok
        THEN [ok |-> FALSE, exc |-> enc.exc, msg |-> enc.msg, dvar |-> dvar,
              zattrs |-> EmptyDict, zarray |-> EmptyDict]
        ELSE [ok |-> zarray.ok, exc |-> zarray.exc, msg |-> zarray.msg,
              dvar |-> dvar,
              zattrs |-> extract_dataarray_coords(dvar,
                            extract_dataarray_zattrs(encoded_da)),
              zarray |-> zarray.meta]

RECURSIVE zmetadata_vars(_, _, _)
\* create_zmetadata's loop over the variables from position i on, meta being
\* the entries emitted and dataset the dataset as the passes so far left it
zmetadata_vars(dataset, i, meta) ==
    IF i > Len(dataset.vars)
    THEN [ok |-> TRUE, exc |-> None, msg |-> None, ds |-> dataset,
          metadata |-> meta]
    ELSE LET dvar == dataset.vars[i]
             r == zmetadata_var(dvar)
             after == [dataset EXCEPT !.vars[i] = r.dvar]
         IN  IF ~r.ok
             THEN [ok |-> FALSE, exc |-> r.exc, msg |-> r.msg, ds |-> after,
                   metadata |-> EmptyDict]
             ELSE zmetadata_vars(after, i + 1,
                      DictSet(DictSet(meta, dvar.name \o "/" \o attrs_key, r.zattrs),
                              dvar.name \o "/" \o array_meta_key, r.zarray))

\* create_zmetadata(dataset): [ok, exc, msg, ds, metadata]; ds is the
\* dataset after the call, metadata the 'metadata' of the document
create_zmetadata(dataset) ==
    zmetadata_vars(dataset, 1,
        DictSet(DictSet(EmptyDict, group_meta_key, "zarr_format 2"),
                attrs_key, extract_dataset_zattrs(dataset)))

ServerIdle ==
    /\ rest = None
    /\ cache = <<>>
    /\ last = None

MetaIdle ==
    /\ mds = None
    /\ mfirst = None
    /\ msecond = None

ChunkIdle ==
    /\ carr = None
    /\ ckey = None
    /\ cshape = None
    /\ cres = NotCalled

\* no concurrent requests in flight, no thread in Rest.cache
ConcIdle == racers = <<>> /\ holder = <<>>
ExtraIdle == pin = <<>> /\ pout = <<>> /\ accessor = <<>> /\ manager = <<>>

(***************************************************************************)
(* SpecMeta: create_zmetadata called twice in a row on a bounded dataset.  *)
(***************************************************************************)
\* block grids of one axis: 1..MaxBlocks blocks of size 1..MaxChunk
AxisGrids == SeqsUpTo(1..MaxChunk, MaxBlocks)
\* the grids of a second axis, and the explicit chunk sizes tried on it
SecondAxisGrids == {<<1>>, <<2, 1>>}
SecondAxisChunks == {1, 2}

DimNames(n) == SubSeq(<<"d1", "d2">>, 1, n)

\* where a variable keeps its _FillValue
FillPlacements == {"none", "attrs", "encoding"}

MakeVar(name, kind, grid, base, enc_chunks, fill) ==
    [name |-> name, kind |-> kind, grid |-> grid, base |-> base,
     dims |-> DimNames(Len(grid)),
     coords |-> <<>>,
     attrs |-> IF fill = "attrs" THEN [units |-> "K", _FillValue |-> 9]
               ELSE [units |-> "K"],
     encoding |->
        LET e == IF fill = "encoding" THEN [_FillValue |-> 9] ELSE EmptyDict
        IN  IF enc_chunks = <<>> THEN e ELSE DictSet(e, "chunks", enc_chunks[1])]

\* a grid of one axis with at most two blocks
ShortGrid(g) == Len(g) <= 2

\* the grids of the variables of SpecMeta, dask and in memory (one block);
\* a second axis is given to the variables whose first axis is short
MetaGrids(kind) ==
    LET first == IF kind = "dask" THEN AxisGrids ELSE {<<n>> : n \in 1..MaxChunk}
        second == IF kind = "dask" THEN SecondAxisGrids ELSE {<<1>>, <<2>>}
    IN  {<<g>> : g \in first}
        \cup {<<g, h>> : g \in {f \in first : ShortGrid(f)}, h \in second}

\* no explicit encoding chunks, or explicit chunks of the variable's rank
MetaEncChunks(grid) ==
    {<<>>} \cup
    IF Len(grid) = 1 THEN {<<<<c>>>> : c \in 1..MaxChunk}
    ELSE {<<<<c, d>>>> : c \in 1..MaxChunk, d \in SecondAxisChunks}

\* a _FillValue is given to the one-axis variables with a short grid
MetaFills(grid) ==
    IF Len(grid) = 1 /\ ShortGrid(grid[1]) THEN FillPlacements ELSE {"none"}

MetaVarsOf(kind, grid) ==
    {MakeVar("x", kind, grid, 1, ec, fill) :
        ec \in MetaEncChunks(grid), fill \in MetaFills(grid)}

MetaVars ==
    UNION {UNION {MetaVarsOf(kind, grid) : grid \in MetaGrids(kind)} :
             kind \in {"numpy", "dask"}}

\* a variable that always builds, declared before or after the one under test
PlainVar == MakeVar("t", "numpy", <<<<2>>>>, 1, <<>>, "attrs")

\* the coordinates of dataset[key], in every iteration order: the
\* variable's dimension, two other coordinates, the variable itself
CoordNames == {"d1", "lat", "lon", "x"}
CoordLists ==
    {q \in UNION {[1..n -> CoordNames] : n \in 0..Cardinality(CoordNames)} :
        \A i, j \in 1..Len(q) : q[i] = q[j] => i = j}

\* in-memory variables with coordinates; "lon" is a coordinate variable
CoordVars ==
    {[MakeVar(name, "numpy", <<<<2>>>>, 1, <<>>, "none") EXCEPT !.coords = q] :
        name \in {"x", "lon"}, q \in CoordLists}

\* global attributes, as given and as normalize_datasets leaves them
MetaAttrs ==
    {[title |-> "demo"],
     DictSet([title |-> "demo"], DATASET_ID_ATTR_KEY, "demo")}

MetaDatasets ==
    {[attrs |-> a, vars |-> <<v>>] : a \in MetaAttrs, v \in MetaVars \cup CoordVars}
    \cup {[attrs |-> DictSet([title |-> "demo"], DATASET_ID_ATTR_KEY, "demo"),
           vars |-> vs] :
            vs \in UNION {{<<PlainVar, v>>, <<v, PlainVar>>} : v \in MetaVars}}

NotBuilt == [called |-> FALSE, input |-> EmptyDict, res |-> EmptyDict]

InitMeta ==
    /\ ServerIdle
    /\ ChunkIdle
    /\ ConcIdle
    /\ ExtraIdle
    /\ mds \in MetaDatasets
    /\ mfirst = NotBuilt
    /\ msecond = NotBuilt

\* zmeta = create_zmetadata(ds), for the first time
BuildFirst ==
    /\ ~mfirst.called
    /\ LET res == create_zmetadata(mds)
       IN  /\ mfirst' = [called |-> TRUE, input |-> mds, res |-> res]
           /\ mds' = res.ds
    /\ UNCHANGED <<extraVars, serverVars, chunkVars, concVars, msecond>>

\* zmeta = create_zmetadata(ds), again on the same dataset object
BuildSecond ==
    /\ mfirst.called
    /\ ~msecond.called
    /\ LET res == create_zmetadata(mds)
       IN  /\ msecond' = [called |-> TRUE, input |-> mds, res |-> res]
           /\ mds' = res.ds
    /\ UNCHANGED <<extraVars, serverVars, chunkVars, concVars, mfirst>>

NextMeta == BuildFirst \/ BuildSecond

SpecMeta == InitMeta /\ [][NextMeta]_vars

(***************************************************************************)
(* Claims about create_zmetadata (SpecMeta).                               *)
(***************************************************************************)
\* the outcome of a build as its caller sees it: the document or the error
Outcome(b) == [ok |-> b.res.ok, exc |-> b.res.exc, msg |-> b.res.msg,
               metadata |-> b.res.metadata]

HasVar(dataset, P(_)) == \E i \in 1..Len(dataset.vars) : P(dataset.vars[i])

\* C4: create_zmetadata leaves the dataset (every variable's attrs and
\* encoding) as it found it, and a second call in a row returns what the
\* first returned.
C4_CreateZmetadataIdempotent ==
    /\ mfirst.called => mfirst.res.ds = mfirst.input
    /\ msecond.called =>
           /\ msecond.res.ds = mfirst.input
           /\ Outcome(msecond) = Outcome(mfirst)

KeepsFillInAttrs(v) == "_FillValue" \in DOMAIN v.attrs

\* two successful builds of a dataset whose variable holds _FillValue in attrs
C4_Witness ==
    /\ msecond.called
    /\ msecond.res.ok
    /\ HasVar(mds, KeepsFillInAttrs)
    /\ msecond.res.metadata["x/.zarray"].fill_value = <<9>>

\* a dask variable whose explicit encoding chunks differ, on some axis, from
\* the first block of its grid
ExplicitChunksDiffer(v) ==
    /\ v.kind = "dask"
    /\ "chunks" \in DOMAIN v.encoding
    /\ \E k \in 1..Ndim(v) : v.encoding["chunks"][k] # v.grid[k][1]

NumpyChunksDiffer(v) ==
    /\ v.kind = "numpy"
    /\ "chunks" \in DOMAIN v.encoding
    /\ v.encoding["chunks"] # Shape(v)

\* C6: with such a variable in the dataset create_zmetadata raises
\* 'Encoding chunks do not match inferred chunks'.
C6_NumpyChunkMismatchRaises ==
    (mfirst.called /\ HasVar(mfirst.input, NumpyChunksDiffer)) =>
        /\ ~mfirst.res.ok
        /\ mfirst.res.msg = "Encoding chunks do not match inferred chunks"

\* a dask variable whose grid is non-uniform along some axis: two distinct
\* non-final block sizes, or a final block larger than the first
NonUniformGrid(v) ==
    /\ v.kind = "dask"
    /\ \E k \in 1..Ndim(v) :
           \/ \E i, j \in 1..(Len(v.grid[k]) - 1) : v.grid[k][i] # v.grid[k][j]
           \/ v.grid[k][Len(v.grid[k])] > v.grid[k][1]

\* C7: with such a variable in the dataset create_zmetadata raises and
\* emits no descriptor.
C7_NonUniformChunksRaise ==
    (mfirst.called /\ HasVar(mfirst.input, NonUniformGrid)) =>
        ~mfirst.res.ok

(***************************************************************************)
(* cachey.Cache, as Rest.cache.  An entry is [value, cost, nbytes].  The   *)
(* score cachey ranks entries by is cost times a touch-weighted time; the  *)
(* model keeps the cost only: an entry put with the pinned cost outranks   *)
(* every timed one, and among entries of one class any may rank lowest.    *)
(***************************************************************************)
PinnedCost == 99999
TimedCosts == {1}

RECURSIVE SumBytes(_, _)
SumBytes(c, keys) ==
    IF keys = {} THEN 0
    ELSE LET k == CHOOSE j \in keys : TRUE
         IN  c[k].nbytes + SumBytes(c, keys \ {k})

\* Cache.total_bytes
TotalBytes(c) == SumBytes(c, DOMAIN c)

\* the entries heap.popitem() may return: the lowest-scored ones
LowestScored(c) ==
    IF \E k \in DOMAIN c : c[k].cost < PinnedCost
    THEN {k \in DOMAIN c : c[k].cost < PinnedCost}
    ELSE DOMAIN c

RECURSIVE Shrink(_)
\* Cache.shrink: retire lowest-scored entries while over the budget
Shrink(c) ==
    IF TotalBytes(c) <= AvailableBytes THEN {c}
    ELSE UNION {Shrink(DictPop(c, k)) : k \in LowestScored(c)}

\* Cache.get(key): the value, or None
CacheGet(c, key) == IF key \in DOMAIN c THEN <<c[key].value>> ELSE <<>>

\* Cache.put(key, value, cost, nbytes): the caches the call may leave.
\* An entry that does not fit is admitted only if it outscores the lowest.
CachePut(c, key, value, cost, nbytes) ==
    LET added == DictSet(c, key, [value |-> value, cost |-> cost, nbytes |-> nbytes])
    IN  IF ~(nbytes < AvailableBytes) THEN {c}
        ELSE IF nbytes + TotalBytes(c) < AvailableBytes \/ DOMAIN c = {}
             THEN Shrink(added)
             ELSE IF \A k \in LowestScored(c) : cost > c[k].cost
                  THEN Shrink(added)
                  ELSE IF \A k \in LowestScored(c) : cost < c[k].cost
                       THEN {c}
                       ELSE {c} \cup Shrink(added)

(***************************************************************************)
(* The datasets a Rest instance serves.                                    *)
(***************************************************************************)
\* the mapping given to Rest(datasets): "a" is dask-backed with a short
\* edge block, "bad" declares encoding chunks its dask grid does not have,
\* and one dataset is stored under the int key 1
GivenDatasets ==
    [a |-> [attrs |-> [title |-> "A"],
            vars |-> <<MakeVar("x", "dask", <<<<2, 1>>>>, 1, <<>>, "encoding")>>],
     bad |-> [attrs |-> [title |-> "B"],
              vars |-> <<MakeVar("x", "dask", <<<<2, 1>>>>, 1, <<<<1>>>>, "none")>>]]
    @@ ("int(1)" :> [attrs |-> [title |-> "I"],
                     vars |-> <<MakeVar("x", "numpy", <<<<2>>>>, 40, <<>>, "none")>>])

\* the datasets the registered plugins' get_dataset hooks return, as they
\* are: nothing has normalized them ("e" has coordinates' attributes only and
\* no data variable)
PluginDatasets ==
    [p |-> [attrs |-> [title |-> "P"],
            vars |-> <<MakeVar("x", "numpy", <<<<2>>>>, 10, <<>>, "none")>>],
     q |-> [attrs |-> [title |-> "Q"],
            vars |-> <<MakeVar("x", "numpy", <<<<2>>>>, 20, <<>>, "attrs")>>],
     e |-> [attrs |-> [title |-> "E"], vars |-> <<>>]]

\* the dataset given to SingleDatasetRest(dataset)
SingleDataset ==
    [attrs |-> [title |-> "S"],
     vars |-> <<MakeVar("x", "dask", <<<<1, 1>>>>, 30, <<>>, "none")>>]

\* Python objects that are not strings: the int 1
IntObjects == {"int(1)"}

\* str(k)
PyStr(k) == IF k = "int(1)" THEN "1" ELSE k

\* normalize_datasets: ids are the keys as strings, each dataset gets its
\* key, as it is, as the _xpublish_id attribute
normalize_datasets(datasets) ==
    [id \in {PyStr(k) : k \in DOMAIN datasets} |->
        LET k == CHOOSE k \in DOMAIN datasets : PyStr(k) = id
        IN  [datasets[k] EXCEPT !.attrs = DictSet(@, DATASET_ID_ATTR_KEY, k)]]

\* bool(dataset): a dataset with data variables is true
Truthy(dataset) == Len(dataset.vars) > 0

\* Rest.get_dataset_from_plugins(dataset_id): [ok, dataset]; not ok is the
\* HTTPException(404)
get_dataset_from_plugins(dataset_id) ==
    IF dataset_id \in DOMAIN PluginDatasets /\ Truthy(PluginDatasets[dataset_id])
    THEN [ok |-> TRUE, dataset |-> PluginDatasets[dataset_id]]
    ELSE IF dataset_id \notin DOMAIN rest.datasets
         THEN [ok |-> FALSE, dataset |-> EmptyDict]
         ELSE [ok |-> TRUE, dataset |-> rest.datasets[dataset_id]]

\* deps.dataset: Rest._get_dataset_func
get_dataset(dataset_id) ==
    IF rest.mode = "single" THEN [ok |-> TRUE, dataset |-> rest.dataset]
    ELSE get_dataset_from_plugins(dataset_id)

(***************************************************************************)
(* The cached variable table and metadata document (dependencies.py) and   *)
(* the zarr plugin's handlers.  Each operator yields the set of outcomes   *)
(* of one call: [cache, ok, exc, value, ...], cache being the cache the    *)
(* call leaves.                                                            *)
(***************************************************************************)
\* dataset.attrs.get(DATASET_ID_ATTR_KEY, '')
IdPrefix(dataset) ==
    IF DATASET_ID_ATTR_KEY \in DOMAIN dataset.attrs
    THEN dataset.attrs[DATASET_ID_ATTR_KEY] ELSE ""

\* create_zvariables: name -> encoded variable
create_zvariables(dataset) ==
    [n \in {dataset.vars[i].name : i \in 1..Len(dataset.vars)} |->
        encode_zarr_variable(
            dataset.vars[CHOOSE i \in 1..Len(dataset.vars) : dataset.vars[i].name = n])]

\* the attribute can be concatenated with '/': it is a string
IdPrefixOk(dataset) ==
    DATASET_ID_ATTR_KEY \in DOMAIN dataset.attrs
        => dataset.attrs[DATASET_ID_ATTR_KEY] \notin IntObjects

get_zvariables(dataset, c) ==
    LET cache_key == IdPrefix(dataset) \o "/" \o "zvariables"
        zvariables == CacheGet(c, cache_key)
    IN  IF ~IdPrefixOk(dataset)
        THEN {[cache |-> c, ok |-> FALSE, exc |-> "TypeError", value |-> EmptyDict]}
        ELSE IF zvariables # <<>>
        THEN {[cache |-> c, ok |-> TRUE, exc |-> None, value |-> zvariables[1]]}
        ELSE {[cache |-> c2, ok |-> TRUE, exc |-> None,
               value |-> create_zvariables(dataset)] :
                c2 \in CachePut(c, cache_key, create_zvariables(dataset),
                                PinnedCost, MetaNbytes)}

\* get_zmetadata that caches what a failed build had emitted so far
get_zmetadata_CachesPartial(dataset, c, zvariables) ==
    LET cache_key == IdPrefix(dataset) \o "/" \o ZARR_METADATA_KEY
        zmeta == CacheGet(c, cache_key)
        built == create_zmetadata(dataset)
    IN  IF zmeta # <<>>
        THEN {[cache |-> c, ok |-> TRUE, exc |-> None, built |-> FALSE,
               value |-> zmeta[1]]}
        ELSE {[cache |-> c2, ok |-> built.ok, exc |-> built.exc, built |-> TRUE,
               value |-> built.metadata] :
                c2 \in CachePut(c, cache_key, built.metadata,
                                PinnedCost, MetaNbytes)}

\* get_zmetadata: value is the 'metadata' of the document; built tells that
\* create_zmetadata ran; not ok is the exception create_zmetadata raised
get_zmetadata(dataset, c, zvariables) ==
    LET cache_key == IdPrefix(dataset) \o "/" \o ZARR_METADATA_KEY
        zmeta == CacheGet(c, cache_key)
        built == create_zmetadata(dataset)
    IN  IF ~IdPrefixOk(dataset)
        THEN {[cache |-> c, ok |-> FALSE, exc |-> "TypeError", built |-> FALSE,
               value |-> EmptyDict]}
        ELSE IF zmeta # <<>>
        THEN {[cache |-> c, ok |-> TRUE, exc |-> None, built |-> FALSE,
               value |-> zmeta[1]]}
        ELSE IF ~built.ok
             THEN {[cache |-> c, ok |-> FALSE, exc |-> built.exc, built |-> TRUE,
                    value |-> EmptyDict]}
             ELSE {[cache |-> c2, ok |-> TRUE, exc |-> None, built |-> TRUE,
                    value |-> built.metadata] :
                     c2 \in CachePut(c, cache_key, built.metadata,
                                     PinnedCost, MetaNbytes)}

\* the codec's get_config()
CodecConfig(codec) == [id |-> codec]

\* jsonify_zmetadata: a copy with the codecs replaced by their configuration
jsonify_zmetadata(dataset, zmetadata) ==
    LET akeys == {dataset.vars[i].name \o "/" \o array_meta_key :
                    i \in 1..Len(dataset.vars)}
    IN  [k \in DOMAIN zmetadata |->
            IF k \in akeys
            THEN [zmetadata[k] EXCEPT
                    !.compressor = CodecConfig(@),
                    !.filters = IF @ = <<>> THEN <<>>
                                ELSE <<[i \in 1..Len(@[1]) |-> CodecConfig(@[1][i])]>>]
            ELSE zmetadata[k]]

\* vars(codec): what FastAPI's jsonable_encoder makes of an object that is
\* not a dict, a list or a scalar: its instance attributes, without the 'id'
\* that get_config() adds
ObjectVars(codec) == [vars |-> codec]

\* FastAPI's jsonable_encoder applied to an array descriptor a handler returned
jsonable_encoder(arr_meta) ==
    [arr_meta EXCEPT
        !.compressor = ObjectVars(@),
        !.filters = IF @ = <<>> THEN <<>>
                    ELSE <<[i \in 1..Len(@[1]) |-> ObjectVars(@[1][i])]>>]

IsSubSeq(sub, s) ==
    \E i \in 0..(Len(s) - Len(sub)) : SubSeq(s, i + 1, i + Len(sub)) = sub

\* ndarray.tobytes(): the elements in row-major order
ToBytes(chunk) ==
    [n \in 1..Cardinality(Indices(chunk.shape)) |->
        chunk.data[CHOOSE idx \in Indices(chunk.shape) :
                       Linear(idx, chunk.shape) = n - 1]]

\* a buffer handed to a codec: the element dtype, the payload, and the codecs
\* that have encoded the payload so far, innermost first
Buffer(dtype, data) == [dtype |-> dtype, codecs |-> <<>>, data |-> data]

\* numcodecs codecs that take an object array and return bytes
ObjectCodecs == {"VLenUTF8()"}
\* numcodecs filters that return an array of the dtype they were given
ArrayFilters == {"Delta()"}

\* codec.encode(buf)
CodecEncode(codec, buf) ==
    [buf EXCEPT !.codecs = Append(@, codec),
                !.dtype = IF codec \in ArrayFilters THEN @ ELSE "bytes"]

RECURSIVE ApplyFilters(_, _)
\* for f in filters: chunk = f.encode(chunk)
ApplyFilters(filters, chunk) ==
    IF filters = <<>> THEN chunk
    ELSE ApplyFilters(Tail(filters), CodecEncode(Head(filters), chunk))

\* encode_chunk with the compressor applied before the filters
encode_chunk_CompressorFirst(chunk, filters, compressor) ==
    LET compressed == IF compressor # None THEN CodecEncode(compressor, chunk)
                      ELSE chunk
        filtered == IF filters # <<>> THEN ApplyFilters(filters[1], compressed)
                    ELSE compressed
    IN  IF chunk.dtype = "object"
        THEN [ok |-> FALSE, exc |-> "RuntimeError", value |-> <<>>]
        ELSE [ok |-> TRUE, exc |-> None, value |-> <<filtered>>]

\* encode_chunk(chunk, filters, compressor): the filters in list order, the
\* object-dtype check on what the filters returned, then the compressor
\* (filters: <<>> for None, else <<list>>; compressor: None or a codec)
encode_chunk(chunk, filters, compressor) ==
    LET filtered == IF filters # <<>> /\ filters[1] # <<>>
                    THEN ApplyFilters(filters[1], chunk)
                    ELSE chunk
    IN  IF filtered.dtype = "object"
        THEN [ok |-> FALSE, exc |-> "RuntimeError", value |-> <<>>]
        ELSE [ok |-> TRUE, exc |-> None,
              value |-> <<IF compressor # None THEN CodecEncode(compressor, filtered)
                          ELSE filtered>>]

\* one outcome of a request handler
\* (raisedIn: where the exception came from; built: create_zmetadata ran;
\* computed: get_data_chunk ran)
Reply(c, status, body, exc, raisedIn, built, computed) ==
    [cache |-> c, status |-> status, body |-> body, exc |-> exc,
     raisedIn |-> raisedIn, built |-> built, computed |-> computed]

\* the chunk branch of get_variable_chunk with the cached response ignored:
\* the chunk is computed and encoded on every request
ChunkBranch_AlwaysComputes(dataset, zv, zm, var, chunk) ==
    LET cache_key == IdPrefix(dataset) \o "/" \o var \o "/" \o JoinChars(chunk)
        akey == var \o "/" \o array_meta_key
    IN  IF akey \notin DOMAIN zm.value \/ var \notin DOMAIN zv.value
        THEN {Reply(zm.cache, 500, <<>>, "KeyError", "lookup", zm.built, FALSE)}
        ELSE LET arr_meta == zm.value[akey]
                 da == zv.value[var]
             IN  UNION {
                   IF ~dc.ok
                   THEN {Reply(zm.cache, 500, <<>>, dc.exc, "get_data_chunk", zm.built, TRUE)}
                   ELSE LET enc == encode_chunk(Buffer("bytes", ToBytes(dc)),
                                                arr_meta.filters, arr_meta.compressor)
                        IN  IF ~enc.ok
                            THEN {Reply(zm.cache, 500, <<>>, enc.exc, "encode_chunk", zm.built, TRUE)}
                            ELSE {Reply(c2, 200, enc.value, None, None, zm.built, TRUE) :
                                    c2 \in UNION {CachePut(DictPop(zm.cache, cache_key),
                                                           cache_key, enc.value[1], t,
                                                           Len(enc.value[1].data)) :
                                                    t \in TimedCosts}}
                   : dc \in get_data_chunk(da, chunk, arr_meta.chunks)}

\* the chunk branch of get_variable_chunk (the final else): the cached
\* response, or the chunk fetched, encoded and put in the cache
ChunkBranch(dataset, zv, zm, var, chunk) ==
    LET cache_key == IdPrefix(dataset) \o "/" \o var \o "/" \o JoinChars(chunk)
        response == CacheGet(zm.cache, cache_key)
        akey == var \o "/" \o array_meta_key
    IN  IF response # <<>>
        THEN {Reply(zm.cache, 200, response, None, None, zm.built, FALSE)}
        ELSE IF akey \notin DOMAIN zm.value \/ var \notin DOMAIN zv.value
             THEN {Reply(zm.cache, 500, <<>>, "KeyError", "lookup", zm.built, FALSE)}
             ELSE LET arr_meta == zm.value[akey]
                      da == zv.value[var]
                  IN  UNION {
                        IF ~dc.ok
                        THEN {Reply(zm.cache, 500, <<>>, dc.exc, "get_data_chunk", zm.built, TRUE)}
                        ELSE LET enc == encode_chunk(Buffer("bytes", ToBytes(dc)),
                                                     arr_meta.filters, arr_meta.compressor)
                             IN  IF ~enc.ok
                                 THEN {Reply(zm.cache, 500, <<>>, enc.exc, "encode_chunk", zm.built, TRUE)}
                                 ELSE {Reply(c2, 200, enc.value, None, None, zm.built, TRUE) :
                                         c2 \in UNION {CachePut(zm.cache, cache_key, enc.value[1],
                                                                t, Len(enc.value[1].data)) :
                                                         t \in TimedCosts}}
                        : dc \in get_data_chunk(da, chunk, arr_meta.chunks)}

\* get_variable_chunk after its two metadata lookups
VariableChunk(dataset, zv, zm, var, chunk) ==
    IF ~zm.ok THEN {Reply(zm.cache, 500, <<>>, zm.exc, "create_zmetadata", zm.built, FALSE)}
    ELSE IF IsSubSeq(array_meta_chars, chunk)
         THEN IF var \o "/" \o array_meta_key \in DOMAIN zm.value
              THEN {Reply(zm.cache, 200,
                          <<jsonable_encoder(zm.value[var \o "/" \o array_meta_key])>>,
                          None, None, zm.built, FALSE)}
              ELSE {Reply(zm.cache, 500, <<>>, "KeyError", "lookup", zm.built, FALSE)}
         ELSE IF IsSubSeq(attrs_chars, chunk)
              THEN IF var \o "/" \o attrs_key \in DOMAIN zm.value
                   THEN {Reply(zm.cache, 200, <<zm.value[var \o "/" \o attrs_key]>>,
                               None, None, zm.built, FALSE)}
                   ELSE {Reply(zm.cache, 500, <<>>, "KeyError", "lookup", zm.built, FALSE)}
              ELSE IF IsSubSeq(group_meta_chars, chunk)
                   THEN {Reply(zm.cache, 404, <<>>, "HTTPException", "get_variable_chunk", zm.built, FALSE)}
                   ELSE ChunkBranch(dataset, zv, zm, var, chunk)

\* GET /{var}/{chunk}
get_variable_chunk(dataset, c, var, chunk) ==
    UNION {IF ~zv.ok
           THEN {Reply(zv.cache, 500, <<>>, zv.exc, "get_zvariables", FALSE, FALSE)}
           ELSE UNION {VariableChunk(dataset, zv, zm, var, chunk) :
                         zm \in get_zmetadata(dataset, zv.cache, zv.value)} :
             zv \in get_zvariables(dataset, c)}

\* GET /.zmetadata
get_zarr_metadata(dataset, c) ==
    UNION {IF ~zv.ok
           THEN {Reply(zv.cache, 500, <<>>, zv.exc, "get_zvariables", FALSE, FALSE)}
           ELSE {IF ~zm.ok
                 THEN Reply(zm.cache, 500, <<>>, zm.exc, "create_zmetadata", zm.built, FALSE)
                 ELSE Reply(zm.cache, 200, <<jsonify_zmetadata(dataset, zm.value)>>,
                            None, None, zm.built, FALSE) :
                   zm \in get_zmetadata(dataset, zv.cache, zv.value)} :
             zv \in get_zvariables(dataset, c)}

\* GET /.zgroup and GET /.zattrs: get_zarr_group, get_zarr_attrs
get_zarr_key(dataset, c, key) ==
    UNION {IF ~zv.ok
           THEN {Reply(zv.cache, 500, <<>>, zv.exc, "get_zvariables", FALSE, FALSE)}
           ELSE {IF ~zm.ok
                 THEN Reply(zm.cache, 500, <<>>, zm.exc, "create_zmetadata", zm.built, FALSE)
                 ELSE Reply(zm.cache, 200, <<zm.value[key]>>, None, None, zm.built, FALSE) :
                   zm \in get_zmetadata(dataset, zv.cache, zv.value)} :
             zv \in get_zvariables(dataset, c)}

\* info without the copy: '_ARRAY_DIMENSIONS' is popped from the cached
\* attributes themselves
info_variable_attrs_NoCopy(meta, name) ==
    LET akey == name \o "/" \o attrs_key
    IN  IF akey \notin DOMAIN meta \/ "_ARRAY_DIMENSIONS" \notin DOMAIN meta[akey]
        THEN [ok |-> FALSE, attrs |-> EmptyDict, meta |-> meta]
        ELSE [ok |-> TRUE, attrs |-> DictPop(meta[akey], "_ARRAY_DIMENSIONS"),
              meta |-> [meta EXCEPT ![akey] = DictPop(@, "_ARRAY_DIMENSIONS")]]

\* info, per variable: attrs = meta[f'{name}/{attrs_key}'].copy();
\* attrs.pop('_ARRAY_DIMENSIONS').  attrs is the copy, meta the document the
\* handler was given as the statements leave it; not ok is the KeyError
info_variable_attrs(meta, name) ==
    LET akey == name \o "/" \o attrs_key
    IN  IF akey \notin DOMAIN meta \/ "_ARRAY_DIMENSIONS" \notin DOMAIN meta[akey]
        THEN [ok |-> FALSE, attrs |-> EmptyDict, meta |-> meta]
        ELSE [ok |-> TRUE, attrs |-> DictPop(meta[akey], "_ARRAY_DIMENSIONS"),
              meta |-> meta]

RECURSIVE info_variables(_, _, _, _)
\* the loop of info over the variables, in dataset order: [ok, variables, meta]
info_variables(dataset, i, variables, meta) ==
    IF i > Len(dataset.vars) THEN [ok |-> TRUE, variables |-> variables, meta |-> meta]
    ELSE LET var == dataset.vars[i]
             a == info_variable_attrs(meta, var.name)
         IN  IF ~a.ok THEN [ok |-> FALSE, variables |-> variables, meta |-> a.meta]
             ELSE info_variables(dataset, i + 1,
                     DictSet(variables, var.name,
                             [type |-> "int64", dimensions |-> var.dims,
                              attributes |-> a.attrs]),
                     a.meta)

\* the cache holding the document object after a handler worked on it: the
\* resident entry is the object the handler was given
Aliased(c, key, meta) ==
    IF key \in DOMAIN c THEN [c EXCEPT ![key].value = meta] ELSE c

\* GET /info
info(dataset, c) ==
    UNION {IF ~zv.ok
           THEN {Reply(zv.cache, 500, <<>>, zv.exc, "get_zvariables", FALSE, FALSE)}
           ELSE {IF ~zm.ok
                 THEN Reply(zm.cache, 500, <<>>, zm.exc, "create_zmetadata", zm.built, FALSE)
                 ELSE LET vs == info_variables(dataset, 1, EmptyDict, zm.value)
                          after == Aliased(zm.cache,
                                           IdPrefix(dataset) \o "/" \o ZARR_METADATA_KEY,
                                           vs.meta)
                      IN  IF ~vs.ok
                          THEN Reply(after, 500, <<>>, "KeyError", "info", zm.built, FALSE)
                          ELSE Reply(after, 200,
                                     <<[dimensions |->
                                          UNION {{<<dataset.vars[i].dims[k],
                                                    SumSeq(dataset.vars[i].grid[k])>> :
                                                    k \in 1..Len(dataset.vars[i].dims)} :
                                                 i \in 1..Len(dataset.vars)},
                                        variables |-> vs.variables,
                                        global_attributes |-> vs.meta[attrs_key]]>>,
                                     None, None, zm.built, FALSE) :
                   zm \in get_zmetadata(dataset, zv.cache, zv.value)} :
             zv \in get_zvariables(dataset, c)}

(***************************************************************************)
(* Spec: one Rest instance and the requests it answers, one at a time.     *)
(***************************************************************************)
RequestIds(mode) == IF mode = "single" THEN {""} ELSE {"1", "a", "bad", "e", "p", "q", "zz"}
RequestVars == {"x", "y"}
RequestChunks ==
    {<<"0">>, <<"1">>, <<"a">>, group_meta_chars, array_meta_chars, attrs_chars}

NoRequest ==
    [kind |-> "none", id |-> "", var |-> "", chunk |-> <<>>, status |-> 0,
     body |-> <<>>, exc |-> None, raisedIn |-> None, built |-> FALSE,
     computed |-> FALSE]

Init ==
    /\ MetaIdle
    /\ ChunkIdle
    /\ ConcIdle
    /\ ExtraIdle
    /\ rest \in {[mode |-> "collection", datasets |-> normalize_datasets(GivenDatasets),
                  dataset |-> EmptyDict],
                 [mode |-> "single", datasets |-> EmptyDict,
                  dataset |-> SingleDataset]}
    /\ cache = EmptyDict
    /\ last = NoRequest

Logged(kind, id, var, chunk, out) ==
    [kind |-> kind, id |-> id, var |-> var, chunk |-> chunk,
     status |-> out.status, body |-> out.body, exc |-> out.exc,
     raisedIn |-> out.raisedIn, built |-> out.built, computed |-> out.computed]

\* a request whose dataset dependency raised HTTPException(404)
NotFound(c) == Reply(c, 404, <<>>, "HTTPException", "get_dataset", FALSE, FALSE)

\* GET {prefix}/zarr/{var}/{chunk}
ChunkRequest ==
    \E id \in RequestIds(rest.mode), var \in RequestVars, chunk \in RequestChunks :
        LET r == get_dataset(id)
        IN  \E out \in IF r.ok THEN get_variable_chunk(r.dataset, cache, var, chunk)
                       ELSE {NotFound(cache)} :
                /\ cache' = out.cache
                /\ last' = Logged("chunk", id, var, chunk, out)
                /\ UNCHANGED <<extraVars, rest, metaVars, chunkVars, concVars>>

\* GET {prefix}/zarr/.zmetadata
MetadataRequest ==
    \E id \in RequestIds(rest.mode) :
        LET r == get_dataset(id)
        IN  \E out \in IF r.ok THEN get_zarr_metadata(r.dataset, cache)
                       ELSE {NotFound(cache)} :
                /\ cache' = out.cache
                /\ last' = Logged("zmetadata", id, "", <<>>, out)
                /\ UNCHANGED <<extraVars, rest, metaVars, chunkVars, concVars>>

\* GET {prefix}/zarr/.zgroup and GET {prefix}/zarr/.zattrs
MetaKeyRequest ==
    \E id \in RequestIds(rest.mode), key \in {group_meta_key, attrs_key} :
        LET r == get_dataset(id)
        IN  \E out \in IF r.ok THEN get_zarr_key(r.dataset, cache, key)
                       ELSE {NotFound(cache)} :
                /\ cache' = out.cache
                /\ last' = Logged(key, id, "", <<>>, out)
                /\ UNCHANGED <<extraVars, rest, metaVars, chunkVars, concVars>>

\* GET {prefix}/info
InfoRequest ==
    \E id \in RequestIds(rest.mode) :
        LET r == get_dataset(id)
        IN  \E out \in IF r.ok THEN info(r.dataset, cache)
                       ELSE {NotFound(cache)} :
                /\ cache' = out.cache
                /\ last' = Logged("info", id, "", <<>>, out)
                /\ UNCHANGED <<extraVars, rest, metaVars, chunkVars, concVars>>

Next == ChunkRequest \/ MetadataRequest \/ MetaKeyRequest \/ InfoRequest

Spec == Init /\ [][Next]_vars

(***************************************************************************)
(* Claims about the cache and the request handlers (Spec).                 *)
(***************************************************************************)
\* the last request asked for a chunk of data, not for a metadata key
DataChunkRequest(l) ==
    /\ l.kind = "chunk"
    /\ ~IsSubSeq(array_meta_chars, l.chunk)
    /\ ~IsSubSeq(attrs_chars, l.chunk)
    /\ ~IsSubSeq(group_meta_chars, l.chunk)

\* the dataset id a served dataset carries: its key for a dataset of the
\* mapping, empty for the single dataset and for a dataset a plugin returns
CarriedId(id) ==
    IF rest.mode = "collection" /\ id \in DOMAIN rest.datasets
       /\ id \notin DOMAIN PluginDatasets
    THEN id ELSE ""

ChunkKeyOf(l) == CarriedId(l.id) \o "/" \o l.var \o "/" \o JoinChars(l.chunk)
MetaKeysOf(l) == {CarriedId(l.id) \o "/zvariables", CarriedId(l.id) \o "/.zmetadata"}

\* after a successful chunk request, what the cache holds under
\* '{dataset_id}/{var}/{chunk}' is the response the request returned
C1_EntryIsTheResponse ==
    (DataChunkRequest(last) /\ last.status = 200 /\ ChunkKeyOf(last) \in DOMAIN cache)
        => <<cache[ChunkKeyOf(last)].value>> = last.body

\* a request adds entries under its own keys only, and a chunk request
\* for a served dataset whose key is resident returns the resident response
\* and calls neither get_data_chunk nor encode_chunk; with the metadata
\* resident too it leaves the cache as it is
C1_HitReturnsResident ==
    /\ (DOMAIN cache') \ (DOMAIN cache) \subseteq MetaKeysOf(last') \cup {ChunkKeyOf(last')}
    /\ (/\ DataChunkRequest(last')
        /\ get_dataset(last'.id).ok
        /\ ChunkKeyOf(last') \in DOMAIN cache)
         => /\ last'.status = 200
            /\ ~last'.computed
            /\ last'.body = <<cache[ChunkKeyOf(last')].value>>
            /\ MetaKeysOf(last') \subseteq DOMAIN cache => cache' = cache

\* C1: once a chunk request has succeeded and its entry was admitted, the
\* cache holds the response under '{dataset_id}/{var}/{chunk}', and every
\* later request for the key, while the entry is resident, returns that
\* response without computing or encoding the chunk again.
C1_CachedChunkServedWithoutRecompute ==
    []C1_EntryIsTheResponse /\ [][C1_HitReturnsResident]_vars

\* the padded edge chunk of "a" served from the cache
C1_Witness ==
    /\ DataChunkRequest(last)
    /\ last.id = "a"
    /\ last.chunk = <<"1">>
    /\ last.status = 200
    /\ ~last.computed
    /\ "a/x/1" \in DOMAIN cache

\* the bodies a request answers with when nothing is cached yet
FreshBodies(l) ==
    LET ds == get_dataset(l.id).dataset
    IN  IF l.kind = "chunk"
        THEN {o.body : o \in get_variable_chunk(ds, EmptyDict, l.var, l.chunk)}
        ELSE {o.body : o \in get_zarr_metadata(ds, EmptyDict)}

\* C2: two distinct dataset ids never share a cache key, so every response
\* for a dataset is one computed from that dataset.
C2_DatasetsNeverShareEntries ==
    /\ \A d1, d2 \in RequestIds(rest.mode) :
           (d1 # d2 /\ get_dataset(d1).ok /\ get_dataset(d2).ok) =>
               IdPrefix(get_dataset(d1).dataset) # IdPrefix(get_dataset(d2).dataset)
    /\ last.status = 200 => last.body \in FreshBodies(last)

\* the request ended in create_zmetadata raising
BuildRaised(l) == l.raisedIn = "create_zmetadata"

\* C3 as stated: a request whose metadata build raises writes no cache entry.
C3_FailedBuildCachesNothing ==
    [][BuildRaised(last') => (DOMAIN cache') \subseteq (DOMAIN cache)]_vars

\* the served datasets whose metadata build raises
BuildFails(id) ==
    LET got == get_dataset(id)
    IN  got.ok /\ ~create_zmetadata(got.dataset).ok
FailingIds == {id \in RequestIds(rest.mode) : BuildFails(id)}

\* a cached document is the complete document of a dataset being served
C3_CachedDocumentsComplete ==
    \A id \in RequestIds(rest.mode) :
        LET k == CarriedId(id) \o "/.zmetadata"
        IN  /\ BuildFails(id) => k \notin DOMAIN cache
            /\ (k \in DOMAIN cache /\ get_dataset(id).ok) =>
                   \E d \in RequestIds(rest.mode) :
                       LET got == get_dataset(d)
                           doc == create_zmetadata(got.dataset)
                       IN  got.ok /\ doc.ok /\ cache[k].value = doc.metadata

\* a request whose build raises returns no document and writes at most the
\* variable table; every request for such a dataset runs the build again
C3_FailedBuildStep ==
    /\ BuildRaised(last') =>
           /\ last'.status = 500
           /\ last'.body = <<>>
           /\ (DOMAIN cache') \ (DOMAIN cache) \subseteq {CarriedId(last'.id) \o "/zvariables"}
    /\ (last'.kind # "none" /\ BuildFails(last'.id)) =>
           (last'.built /\ BuildRaised(last'))

\* C3 amended: the build caches a complete document or none; when
\* create_zmetadata raises, the request returns nothing and the only entry
\* it may have written is the variable table of get_zvariables.
C3_FailedBuildCachesNoDocument ==
    []C3_CachedDocumentsComplete /\ [][C3_FailedBuildStep]_vars

\* a failed build that left the variable table, and no document, behind
C3_Witness ==
    /\ BuildRaised(last)
    /\ last.id = "bad"
    /\ "bad/zvariables" \in DOMAIN cache
    /\ "bad/.zmetadata" \notin DOMAIN cache

(***************************************************************************)
(* SpecChunk: get_data_chunk on bounded inputs.                            *)
(***************************************************************************)
ChunkIds == SeqsUpTo(KeyAlphabet, MaxKeyLen)

\* the arrays get_data_chunk is applied to: a scalar, in-memory arrays of
\* rank 1 and 2, dask arrays of rank 1 and 2 with a short edge block
ChunkArrays ==
    { [kind |-> "numpy", grid |-> <<>>, base |-> 5],
      [kind |-> "numpy", grid |-> <<<<2>>>>, base |-> 1],
      [kind |-> "numpy", grid |-> <<<<2>>, <<2>>>>, base |-> 1],
      [kind |-> "dask", grid |-> <<<<2, 2, 1>>>>, base |-> 1],
      [kind |-> "dask", grid |-> <<<<2, 1>>, <<1, 1>>>>, base |-> 1],
      [kind |-> "dask", grid |-> <<<<1, 1>>, <<2>>>>, base |-> 1] }

\* the declared chunk shape of an array (the shape for numpy, the first
\* block for dask), and the same grown by one along every axis
OutShapes(a) ==
    LET declared == [k \in 1..Ndim(a) |-> a.grid[k][1]]
    IN  {declared, [k \in 1..Ndim(a) |-> declared[k] + 1]}

InitChunk ==
    /\ ServerIdle
    /\ MetaIdle
    /\ ConcIdle
    /\ ExtraIdle
    /\ carr \in ChunkArrays
    /\ ckey \in ChunkIds
    /\ cshape \in OutShapes(carr)
    /\ cres = NotCalled

CallGetDataChunk ==
    /\ cres = NotCalled
    /\ cres' \in get_data_chunk(carr, ckey, cshape)
    /\ UNCHANGED <<extraVars, serverVars, metaVars, concVars, carr, ckey, cshape>>

NextChunk == CallGetDataChunk

SpecChunk == InitChunk /\ [][NextChunk]_vars

(***************************************************************************)
(* Claims about get_data_chunk (SpecChunk).                                *)
(***************************************************************************)
Called == cres # NotCalled

\* every token of the key is accepted by int()
Parseable(key) ==
    \A i \in 1..Len(Split(key, ".")) : IntOk(Split(key, ".")[i])

ParsedKey(key) ==
    [i \in 1..Len(Split(key, ".")) |-> IntOf(Split(key, ".")[i])]

\* a dot-separated tuple of exactly n non-negative integers
WellFormedKey(key, n) ==
    /\ Len(Split(key, ".")) = n
    /\ \A i \in 1..n :
           /\ Split(key, ".")[i] # <<>>
           /\ \A j \in 1..Len(Split(key, ".")[i]) :
                  Split(key, ".")[i][j] \in Digits

\* C8: for an in-memory array of rank n >= 1, a parseable key returns data
\* exactly when its parsed tuple is n zeros; any other parseable key raises
\* the 'Invalid chunk_id' error naming the all-zeros key and returns no data.
C8_InMemoryOnlyZeroKey ==
    (Called /\ carr.kind = "numpy" /\ Ndim(carr) >= 1 /\ Parseable(ckey)) =>
        IF ParsedKey(ckey) = Zeros(Ndim(carr))
        THEN cres.ok /\ cres.shape = cshape
        ELSE /\ ~cres.ok
             /\ cres.exc = "ValueError"
             /\ cres.msg = "Invalid chunk_id for numpy array"
             /\ cres.expected = Zeros(Ndim(carr))
             /\ cres.data = <<>>

\* a rank-2 in-memory array asked for "0.1": rejected, naming (0, 0)
C8_Witness ==
    /\ Called
    /\ carr.kind = "numpy"
    /\ Ndim(carr) = 2
    /\ ckey = <<"0", ".", "1">>
    /\ ~cres.ok
    /\ cres.expected = <<0, 0>>

\* C9: a zero-dimensional array accepts a chunk key if and only if it is
\* the literal key "0".
C9_ScalarOnlyKeyZero ==
    (Called /\ carr.kind = "numpy" /\ Ndim(carr) = 0) =>
        (cres.ok <=> ckey = <<"0">>)

\* C10: for a dask array of rank n, every key that is not a dot-separated
\* tuple of exactly n non-negative integers is rejected with an error.
C10_ChunkedRejectsMalformedKey ==
    (Called /\ carr.kind = "dask" /\ ~WellFormedKey(ckey, Ndim(carr))) =>
        ~cres.ok

\* the key names one cell of the array's chunk grid: "0" for a scalar, n
\* zeros for an in-memory array, n block indices in range for a dask array
ValidKey(a, key) ==
    IF Ndim(a) = 0 THEN key = <<"0">>
    ELSE /\ WellFormedKey(key, Ndim(a))
         /\ \A k \in 1..Ndim(a) :
                IF a.kind = "dask" THEN ParsedKey(key)[k] < Len(a.grid[k])
                ELSE ParsedKey(key)[k] = 0

\* shape and first index of the grid cell a valid key names
CellShape(a, key) ==
    [k \in 1..Ndim(a) |->
        IF a.kind = "dask" THEN a.grid[k][ParsedKey(key)[k] + 1]
        ELSE SumSeq(a.grid[k])]
CellStart(a, key) ==
    [k \in 1..Ndim(a) |->
        IF a.kind = "dask" THEN SumSeq(SubSeq(a.grid[k], 1, ParsedKey(key)[k]))
        ELSE 0]
CellElem(a, key, idx) ==
    Elem(a, [k \in 1..Ndim(a) |-> CellStart(a, key)[k] + idx[k]])

\* C11: for a valid key whose cell fits in out_shape, the result has shape
\* out_shape and its leading sub-region holds the cell's data; when the
\* cell has shape out_shape the result is the cell, element for element.
C11_EdgeChunkPaddedToOutShape ==
    (/\ Called
     /\ ValidKey(carr, ckey)
     /\ \A k \in 1..Ndim(carr) : CellShape(carr, ckey)[k] <= cshape[k]) =>
        /\ cres.ok
        /\ cres.shape = cshape
        /\ DOMAIN cres.data = Indices(cshape)
        /\ \A idx \in Indices(CellShape(carr, ckey)) :
               cres.data[idx] = CellElem(carr, ckey, idx)

\* the short last row of blocks of a rank-2 dask array, returned at the
\* full chunk shape with its one element first
C11_Witness ==
    /\ Called
    /\ carr = [kind |-> "dask", grid |-> <<<<2, 1>>, <<1, 1>>>>, base |-> 1]
    /\ ckey = <<"1", ".", "0">>
    /\ cshape = <<2, 1>>
    /\ cres.ok
    /\ cres.shape = <<2, 1>>
    /\ cres.data[<<0, 0>>] = 5

\* C12: the elements of a padded result outside the leading sub-region
\* that holds the fetched cell are zero.
C12_PaddingIsZero ==
    (Called /\ ValidKey(carr, ckey) /\ cres.ok) =>
        \A idx \in Indices(cres.shape) \ Indices(CellShape(carr, ckey)) :
            cres.data[idx] = 0

(***************************************************************************)
(* Claims about the outcomes of GET /{var}/{chunk} (Spec).                 *)
(***************************************************************************)
VarNames(dataset) == {dataset.vars[i].name : i \in 1..Len(dataset.vars)}
VarNamed(dataset, n) ==
    dataset.vars[CHOOSE i \in 1..Len(dataset.vars) : dataset.vars[i].name = n]

\* the last request was GET /{var}/{chunk} on a served dataset whose
\* metadata builds
ChunkRouteServed ==
    /\ last.kind = "chunk"
    /\ get_dataset(last.id).ok
    /\ ~BuildFails(last.id)

\* C13: a request for a variable the dataset does not have, or for a chunk
\* name containing '.zgroup', is answered 404; no chunk is computed and no
\* chunk entry is added to the cache.
C13_UnknownVariableOrGroupIs404 ==
    (/\ ChunkRouteServed
     /\ \/ last.var \notin VarNames(get_dataset(last.id).dataset)
        \/ IsSubSeq(group_meta_chars, last.chunk)) =>
        /\ last.status = 404
        /\ ~last.computed
        /\ ChunkKeyOf(last) \notin DOMAIN cache

\* the key is malformed for the variable, or names a cell an in-memory
\* variable does not have
InvalidChunkKey(v, key) ==
    \/ ~WellFormedKey(key, Len(v.grid))
    \/ v.kind = "numpy" /\ ParsedKey(key) # Zeros(Len(v.grid))

\* C14: a request for a known variable with an invalid chunk key ends in a
\* client error (400 or 404), never a server error, and leaves no entry
\* for the key in the cache.
C14_InvalidChunkKeyIsClientError ==
    (/\ ChunkRouteServed
     /\ DataChunkRequest(last)
     /\ last.var \in VarNames(get_dataset(last.id).dataset)
     /\ InvalidChunkKey(VarNamed(get_dataset(last.id).dataset, last.var), last.chunk)) =>
        /\ last.status \in {400, 404}
        /\ ChunkKeyOf(last) \notin DOMAIN cache

(***************************************************************************)
(* SpecRace: two requests for the same chunk handled at once.  FastAPI     *)
(* runs the handler (a plain def) in a worker thread per request, so the   *)
(* handlers interleave between their accesses to the shared cache: the     *)
(* metadata lookups, cache.get, the computation and cache.put.             *)
(***************************************************************************)
Racers == {1, 2}

\* the chunk both requests ask for
RaceRequests ==
    {[id |-> "a", var |-> "x", chunk |-> <<"0">>],
     [id |-> "a", var |-> "x", chunk |-> <<"1">>],
     [id |-> "p", var |-> "x", chunk |-> <<"0">>],
     [id |-> "p", var |-> "x", chunk |-> <<"1">>],
     [id |-> "q", var |-> "x", chunk |-> <<"0">>],
     [id |-> "bad", var |-> "x", chunk |-> <<"0">>]}

RaceStart(req) ==
    [pc |-> "start", req |-> req, zv |-> EmptyDict, zm |-> EmptyDict,
     echunk |-> <<>>, body |-> <<>>, status |-> 0, runs |-> 0]

InitRace ==
    /\ MetaIdle
    /\ ChunkIdle
    /\ holder = <<>>
    /\ ExtraIdle
    /\ rest = [mode |-> "collection", datasets |-> normalize_datasets(GivenDatasets),
               dataset |-> EmptyDict]
    /\ cache = EmptyDict
    /\ last = NoRequest
    /\ \E req \in RaceRequests : racers = [t \in Racers |-> RaceStart(req)]

RaceDataset(t) == get_dataset(racers[t].req.id).dataset
RaceKey(t) ==
    IdPrefix(RaceDataset(t)) \o "/" \o racers[t].req.var \o "/"
        \o JoinChars(racers[t].req.chunk)

\* zvariables = get_zvariables(dataset, cache);
\* zmetadata = get_zmetadata(dataset, cache, zvariables)
RaceLookup(t) ==
    /\ racers[t].pc = "start"
    /\ \E zv \in get_zvariables(RaceDataset(t), cache) :
         \E zm \in IF zv.ok THEN get_zmetadata(RaceDataset(t), zv.cache, zv.value)
                    ELSE {[cache |-> zv.cache, ok |-> FALSE]} :
            /\ cache' = zm.cache
            /\ racers' = [racers EXCEPT ![t] =
                  IF zm.ok
                  THEN [@ EXCEPT !.pc = "get", !.zv = zv.value, !.zm = zm.value]
                  ELSE [@ EXCEPT !.pc = "done", !.status = 500]]
    /\ UNCHANGED <<extraVars, rest, last, metaVars, chunkVars, holder>>

\* response = cache.get(cache_key)
RaceGet(t) ==
    /\ racers[t].pc = "get"
    /\ LET response == CacheGet(cache, RaceKey(t))
       IN  racers' = [racers EXCEPT ![t] =
               IF response # <<>>
               THEN [@ EXCEPT !.pc = "done", !.status = 200, !.body = response]
               ELSE [@ EXCEPT !.pc = "compute"]]
    /\ UNCHANGED <<extraVars, rest, cache, last, metaVars, chunkVars, holder>>

\* data_chunk = get_data_chunk(...); echunk = encode_chunk(...)
RaceCompute(t) ==
    /\ racers[t].pc = "compute"
    /\ LET r == racers[t]
           arr_meta == r.zm[r.req.var \o "/" \o array_meta_key]
       IN  \E dc \in get_data_chunk(r.zv[r.req.var], r.req.chunk, arr_meta.chunks) :
             LET enc == encode_chunk(Buffer("bytes", ToBytes(dc)),
                                     arr_meta.filters, arr_meta.compressor)
             IN  racers' = [racers EXCEPT ![t] =
                     IF dc.ok /\ enc.ok
                     THEN [@ EXCEPT !.pc = "put", !.runs = @ + 1,
                                    !.echunk = enc.value]
                     ELSE [@ EXCEPT !.pc = "done", !.runs = @ + 1, !.status = 500]]
    /\ UNCHANGED <<extraVars, rest, cache, last, metaVars, chunkVars, holder>>

\* cache.put(cache_key, response, ct.time, len(echunk)); return response
RacePut(t) ==
    /\ racers[t].pc = "put"
    /\ \E cost \in TimedCosts :
         cache' \in CachePut(cache, RaceKey(t), racers[t].echunk[1], cost,
                             Len(racers[t].echunk[1].data))
    /\ racers' = [racers EXCEPT ![t] =
           [@ EXCEPT !.pc = "done", !.status = 200, !.body = racers[t].echunk]]
    /\ UNCHANGED <<extraVars, rest, last, metaVars, chunkVars, holder>>

NextRace ==
    \/ \E t \in Racers : RaceLookup(t)
    \/ \E t \in Racers : RaceGet(t)
    \/ \E t \in Racers : RaceCompute(t)
    \/ \E t \in Racers : RacePut(t)

SpecRace == InitRace /\ [][NextRace]_vars

(***************************************************************************)
(* Claims about concurrent chunk requests (SpecRace).                      *)
(***************************************************************************)
BothDone == \A t \in Racers : racers[t].pc = "done"

\* the responses one request alone, on an empty cache, may return
SequentialBodies(req) ==
    {o.body : o \in get_variable_chunk(get_dataset(req.id).dataset, EmptyDict,
                                      req.var, req.chunk)}

\* C15: however two first requests for one uncached chunk interleave, each
\* computes the chunk at most once, both return the content one
\* sequential request returns, and the cache holds at most one entry for
\* the key, with that same content.
C15_RacingRequestsAgree ==
    /\ \A t \in Racers : racers[t].runs <= 1
    /\ BothDone =>
          /\ racers[1].status = racers[2].status
          /\ racers[1].body = racers[2].body
          /\ racers[1].body \in SequentialBodies(racers[1].req)
          /\ RaceKey(1) \in DOMAIN cache =>
                 <<cache[RaceKey(1)].value>> = racers[1].body

(***************************************************************************)
(* SpecCacheInit: the lazy Rest.cache property.  The dependency handed to  *)
(* the routers is `lambda: self.cache`; FastAPI evaluates it in a worker   *)
(* thread for every request, so first evaluations may overlap.  A          *)
(* cachey.Cache instance is [id, kws]; Rest._cache is None or an instance. *)
(***************************************************************************)
\* the cache_kws argument of Rest(...): None, or a byte budget
CacheKwsGiven == {<<>>, <<[available_bytes |-> 999]>>}

\* Rest.init_cache_kwargs: the default updated with the given kwargs
init_cache_kwargs(cache_kws) ==
    IF cache_kws = <<>> THEN [available_bytes |-> 1000000] ELSE cache_kws[1]

InitCacheInit ==
    /\ ServerIdle
    /\ MetaIdle
    /\ ChunkIdle
    /\ racers = <<>>
    /\ ExtraIdle
    /\ \E kws \in CacheKwsGiven :
         holder = [_cache |-> <<>>, _cache_kws |-> init_cache_kwargs(kws),
                   made |-> 0,
                   th |-> [t \in 1..CacheThreads |->
                             [pc |-> "idle", new |-> <<>>, got |-> <<>>]]]

HolderStep(t, th, rest_of) ==
    /\ holder' = [rest_of EXCEPT !.th[t] = th]
    /\ UNCHANGED <<extraVars, serverVars, metaVars, chunkVars, racers>>

\* if self._cache is None:
CacheCheck(t) ==
    /\ holder.th[t].pc = "idle"
    /\ Len(holder.th[t].got) < MaxAccesses
    /\ HolderStep(t, [holder.th[t] EXCEPT
                        !.pc = IF holder._cache = <<>> THEN "create" ELSE "return"],
                  holder)

\* cachey.Cache(**self._cache_kws)
CacheCreate(t) ==
    /\ holder.th[t].pc = "create"
    /\ HolderStep(t, [holder.th[t] EXCEPT
                        !.pc = "assign",
                        !.new = <<[id |-> holder.made + 1, kws |-> holder._cache_kws]>>],
                  [holder EXCEPT !.made = @ + 1])

\* self._cache = <the new instance>
CacheAssign(t) ==
    /\ holder.th[t].pc = "assign"
    /\ HolderStep(t, [holder.th[t] EXCEPT !.pc = "return", !.new = <<>>],
                  [holder EXCEPT !._cache = holder.th[t].new])

\* return self._cache
CacheReturn(t) ==
    /\ holder.th[t].pc = "return"
    /\ HolderStep(t, [holder.th[t] EXCEPT !.pc = "idle",
                                          !.got = Append(@, holder._cache[1])],
                  holder)

NextCacheInit ==
    \/ \E t \in 1..CacheThreads : CacheCheck(t)
    \/ \E t \in 1..CacheThreads : CacheCreate(t)
    \/ \E t \in 1..CacheThreads : CacheAssign(t)
    \/ \E t \in 1..CacheThreads : CacheReturn(t)

SpecCacheInit == InitCacheInit /\ [][NextCacheInit]_vars

(***************************************************************************)
(* Claims about Rest.cache (SpecCacheInit).                                *)
(***************************************************************************)
\* the instances the evaluations of Rest.cache have returned so far
CachesReturned ==
    UNION {{holder.th[t].got[i] : i \in 1..Len(holder.th[t].got)} :
             t \in 1..CacheThreads}

\* C16: every evaluation of Rest.cache, under any interleaving of first
\* accesses, yields the same cachey.Cache instance, created once with the
\* configured cache_kws.
C16_OneSharedCacheInstance ==
    /\ holder.made <= 1
    /\ Cardinality(CachesReturned) <= 1
    /\ \A c \in CachesReturned : c.kws = holder._cache_kws

(***************************************************************************)
(* Claims about the documents create_zmetadata builds (SpecMeta).          *)
(***************************************************************************)
\* the first call returned a document
Built == mfirst.called /\ mfirst.res.ok
Doc == mfirst.res.metadata
GivenVars == {mfirst.input.vars[i] : i \in 1..Len(mfirst.input.vars)}

\* the _FillValue a variable declares, in its attrs or in its encoding
DeclaredFill(v) ==
    IF "_FillValue" \in DOMAIN v.attrs THEN <<v.attrs["_FillValue"]>>
    ELSE IF "_FillValue" \in DOMAIN v.encoding THEN <<v.encoding["_FillValue"]>>
         ELSE <<>>

\* C17: no '{var}/.zattrs' of a built document holds '_FillValue'; the
\* variable's fill value is the 'fill_value' of its '{var}/.zarray' and
\* nowhere else.
C17_FillValueOnlyInZarray ==
    Built =>
        \A v \in GivenVars :
            /\ "_FillValue" \notin DOMAIN Doc[v.name \o "/" \o attrs_key]
            /\ Doc[v.name \o "/" \o array_meta_key].fill_value = DeclaredFill(v)
            /\ \A k \in DOMAIN v.attrs \ {"_FillValue"} :
                   Doc[v.name \o "/" \o attrs_key][k] = v.attrs[k]

\* a variable that keeps _FillValue in its attrs, built
C17_Witness ==
    /\ Built
    /\ \E v \in GivenVars :
          /\ "_FillValue" \in DOMAIN v.attrs
          /\ v.name = "x"
          /\ Doc["x/.zarray"].fill_value = <<9>>
          /\ "units" \in DOMAIN Doc["x/.zattrs"]

\* C18: the '.zattrs' of a built document is the dataset's global
\* attributes without '_xpublish_id', and the document's keys are
\* '.zgroup', '.zattrs' and one '{var}/.zattrs' and one '{var}/.zarray'
\* per variable.
C18_DatasetAttrsWithoutIdentity ==
    Built =>
        /\ DATASET_ID_ATTR_KEY \notin DOMAIN Doc[attrs_key]
        /\ DOMAIN Doc[attrs_key] = DOMAIN mfirst.input.attrs \ {DATASET_ID_ATTR_KEY}
        /\ \A k \in DOMAIN Doc[attrs_key] : Doc[attrs_key][k] = mfirst.input.attrs[k]
        /\ DOMAIN Doc =
              {group_meta_key, attrs_key}
              \cup {v.name \o "/" \o attrs_key : v \in GivenVars}
              \cup {v.name \o "/" \o array_meta_key : v \in GivenVars}
        /\ Cardinality(DOMAIN Doc) = 2 + 2 * Len(mfirst.input.vars)

\* a normalized dataset of two variables, built
C18_Witness ==
    /\ Built
    /\ DATASET_ID_ATTR_KEY \in DOMAIN mfirst.input.attrs
    /\ Len(mfirst.input.vars) = 2
    /\ Doc[attrs_key] = [title |-> "demo"]

\* position of a name in alphabetical order
Rank(n) == CHOOSE i \in 1..Len(NameOrder) : NameOrder[i] = n

\* the names of S, each once, in alphabetical order, joined by spaces
AlphabeticalJoin(S) ==
    JoinNames(CHOOSE q \in [1..Cardinality(S) -> S] :
                 \A i, j \in 1..Cardinality(S) : i < j => Rank(q[i]) < Rank(q[j]))

NonDimCoords(v) == SeqToSet(v.coords) \ SeqToSet(v.dims)

\* C19: a variable's zattrs get 'coordinates' exactly when the variable
\* has a non-dimension coordinate and is not one itself; the value is the
\* non-dimension coordinate names in alphabetical order, space-joined,
\* whatever order the coordinates are iterated in.
C19_CoordinatesSortedAndJoined ==
    Built =>
        \A v \in GivenVars :
            LET zattrs == Doc[v.name \o "/" \o attrs_key]
            IN  /\ "coordinates" \in DOMAIN zattrs <=>
                      (NonDimCoords(v) # {} /\ v.name \notin NonDimCoords(v))
                /\ "coordinates" \in DOMAIN zattrs =>
                      zattrs["coordinates"] = AlphabeticalJoin(NonDimCoords(v))

\* coordinates iterated as lon, d1, lat: the attribute reads "lat lon"
C19_Witness ==
    /\ Built
    /\ \E v \in GivenVars :
          /\ v.name = "x"
          /\ v.coords = <<"lon", "d1", "lat">>
          /\ Doc["x/.zattrs"]["coordinates"] = "lat lon"

\* C20: the descriptor's 'chunks' is the explicit encoding chunks if
\* given, else the dask chunk sizes (the first per axis), else the shape.
C20_ChunksResolutionOrder ==
    Built =>
        \A v \in GivenVars :
            Doc[v.name \o "/" \o array_meta_key].chunks =
                IF "chunks" \in DOMAIN v.encoding THEN v.encoding["chunks"]
                ELSE IF v.kind = "dask" THEN [k \in 1..Len(v.grid) |-> v.grid[k][1]]
                     ELSE [k \in 1..Len(v.grid) |-> SumSeq(v.grid[k])]

(***************************************************************************)
(* Fill values (utils/zarr.py, encode_fill_value).  A value is a record    *)
(* [t, v] of its type and its literal; a datetime64 also carries i8, the   *)
(* literal of its 64-bit integer view.  A JSON value is a record           *)
(* [t, v, items].                                                          *)
(***************************************************************************)
JNull == [t |-> "null", v |-> "", items |-> <<>>]
JStr(x) == [t |-> "str", v |-> x, items |-> <<>>]
JInt(x) == [t |-> "int", v |-> x, items |-> <<>>]
JFloat(x) == [t |-> "float", v |-> x, items |-> <<>>]
JBool(x) == [t |-> "bool", v |-> x, items |-> <<>>]
JList(xs) == [t |-> "list", v |-> "", items |-> xs]

FillOk(j) == [ok |-> TRUE, exc |-> None, value |-> <<j>>]
FillErr(exc) == [ok |-> FALSE, exc |-> exc, value |-> <<>>]

\* the floating branch with NaN handed on as a float
encode_fill_float_NaNLiteral(v) ==
    IF v = "inf" THEN JStr("Infinity")
    ELSE IF v = "-inf" THEN JStr("-Infinity")
    ELSE JFloat(v)

\* encode_fill_value, the branch dtype.kind == 'f'
encode_fill_float(v) ==
    IF v = "nan" THEN JStr("NaN")
    ELSE IF v = "inf" THEN JStr("Infinity")
    ELSE IF v = "-inf" THEN JStr("-Infinity")
    ELSE JFloat(v)

\* encode_fill_value(v, dtype), object_codec left at None as every caller does
encode_fill_value(v, dtype) ==
    IF v.t = "NoneType" THEN FillOk(JNull)
    ELSE IF dtype.kind = "V" /\ dtype.hasobject THEN FillErr("ValueError")
    ELSE IF dtype.kind = "f" THEN FillOk(encode_fill_float(v.v))
    ELSE IF dtype.kind \in {"u", "i"} THEN FillOk(JInt(v.v))
    ELSE IF dtype.kind = "b" THEN FillOk(JBool(v.v))
    ELSE IF dtype.kind = "c"
         THEN FillOk(JList(<<encode_fill_float(v.re), encode_fill_float(v.im)>>))
    ELSE IF dtype.kind \in {"S", "V"} THEN FillOk(JStr("base64:" \o v.v))
    ELSE IF dtype.kind = "U" THEN FillOk(JStr(v.v))
    ELSE IF dtype.kind \in {"m", "M"} THEN FillOk(JInt(v.i8))
    ELSE FillOk(JStr(v.v))

(***************************************************************************)
(* SpecUnit: one call of a stateless function on bounded arguments.        *)
(***************************************************************************)
FilterLists == {<<>>} \cup SeqsUpTo(ArrayFilters \cup ObjectCodecs, MaxFilters)

EncodeChunkCalls ==
    {[fn |-> "encode_chunk", chunk |-> Buffer(dt, data), filters |-> fl,
      compressor |-> c] :
        dt \in {"int64", "object"}, data \in {<<0>>, <<1, 0>>},
        fl \in {<<>>} \cup {<<f>> : f \in FilterLists},
        c \in {None, default_compressor}}

FloatLiterals == {"nan", "inf", "-inf", "1.5"}
Dtype(kind) == [kind |-> kind, hasobject |-> FALSE]

FillValueCalls ==
    {[fn |-> "encode_fill_value", v |-> [t |-> "NoneType", v |-> ""], dtype |-> Dtype(k)] :
        k \in {"f", "i", "M", "c"}}
    \cup {[fn |-> "encode_fill_value", v |-> [t |-> "float64", v |-> f],
           dtype |-> Dtype("f")] : f \in FloatLiterals}
    \cup {[fn |-> "encode_fill_value", v |-> [t |-> "int64", v |-> i],
           dtype |-> Dtype(k)] : i \in {"0", "-7"}, k \in {"i", "u"}}
    \cup {[fn |-> "encode_fill_value", v |-> [t |-> "bool_", v |-> b],
           dtype |-> Dtype("b")] : b \in {"True", "False"}}
    \cup {[fn |-> "encode_fill_value", v |-> [t |-> "complex128", re |-> r, im |-> i],
           dtype |-> Dtype("c")] : r \in FloatLiterals, i \in FloatLiterals}
    \cup {[fn |-> "encode_fill_value", v |-> d, dtype |-> Dtype(k)] :
           d \in {[t |-> "datetime64", v |-> "1970-01-02", i8 |-> "1"],
                  [t |-> "datetime64", v |-> "NaT", i8 |-> "-9223372036854775808"]},
           k \in {"M"}}
    \cup {[fn |-> "encode_fill_value", v |-> [t |-> "timedelta64", v |-> "3 days", i8 |-> "3"],
           dtype |-> Dtype("m")]}
    \cup {[fn |-> "encode_fill_value", v |-> [t |-> "str_", v |-> "n/a"], dtype |-> Dtype("U")],
          [fn |-> "encode_fill_value", v |-> [t |-> "bytes_", v |-> "ab"], dtype |-> Dtype("S")],
          [fn |-> "encode_fill_value", v |-> [t |-> "void", v |-> "ab"],
           dtype |-> [kind |-> "V", hasobject |-> TRUE]]}

(***************************************************************************)
(* Routers (utils/api.py, rest.py).  An item of the routers argument is    *)
(* [kind, router, kwargs]: a bare APIRouter, an (APIRouter, kwargs) tuple, *)
(* or something else; a mounted router is a tuple item whose kwargs hold   *)
(* the prefix given to FastAPI.include_router.                             *)
(***************************************************************************)
RouterItem(kind, router, kwargs) == [kind |-> kind, router |-> router, kwargs |-> kwargs]

\* the paths of a router's routes
RouterPaths(router) ==
    IF router = "dataset_collection_router" THEN {"/datasets"}
    ELSE IF router = "zarr" THEN {"/zarr/.zmetadata"}
    ELSE {"/dims"}

KwargsPrefix(kwargs) == IF "prefix" \in DOMAIN kwargs THEN kwargs["prefix"] ELSE ""

\* normalize_app_routers(routers, prefix)
normalize_app_routers(routers, prefix) ==
    IF \E i \in 1..Len(routers) : routers[i].kind \notin {"APIRouter", "tuple"}
    THEN [ok |-> FALSE, exc |-> "TypeError", routers |-> <<>>]
    ELSE [ok |-> TRUE, exc |-> None,
          routers |->
            [i \in 1..Len(routers) |->
                IF routers[i].kind = "APIRouter"
                THEN RouterItem("tuple", routers[i].router, [prefix |-> prefix])
                ELSE RouterItem("tuple", routers[i].router,
                                DictSet(routers[i].kwargs, "prefix",
                                        prefix \o KwargsPrefix(routers[i].kwargs)))]]

\* check_route_conflicts(routers): no path is defined twice
check_route_conflicts(routers) ==
    \A i, j \in 1..Len(routers) :
        i # j => {KwargsPrefix(routers[i].kwargs) \o q : q \in RouterPaths(routers[i].router)}
                 \cap {KwargsPrefix(routers[j].kwargs) \o q : q \in RouterPaths(routers[j].router)}
                 = {}

\* Rest._dataset_route_prefix as setup_datasets leaves it
dataset_route_prefix(mode) == IF mode = "collection" THEN "/datasets/{dataset_id}" ELSE ""

\* Rest._init_routers(dataset_routers) with the zarr plugin loaded: the
\* routers the application includes, or the exception raised
init_routers(mode, dataset_routers) ==
    LET prefix == dataset_route_prefix(mode)
        collection == IF prefix # ""
                      THEN <<RouterItem("tuple", "dataset_collection_router",
                                        [tags |-> "info"])>>
                      ELSE <<>>
        plugin_dataset_routers == <<RouterItem("tuple", "zarr", EmptyDict)>>
        normal == normalize_app_routers(plugin_dataset_routers \o dataset_routers, prefix)
    IN  IF ~normal.ok THEN normal
        ELSE IF ~check_route_conflicts(collection \o normal.routers)
             THEN [ok |-> FALSE, exc |-> "ValueError", routers |-> <<>>]
             ELSE [ok |-> TRUE, exc |-> None, routers |-> collection \o normal.routers]

\* Rest.__init__(datasets, routers) followed by the first read of Rest.app:
\* the routers the application includes, or the exception raised
rest_app_routers(mode, routers) ==
    LET given == normalize_app_routers(routers, dataset_route_prefix(mode))
    IN  IF ~given.ok THEN given
        ELSE IF ~check_route_conflicts(given.routers)
             THEN [ok |-> FALSE, exc |-> "ValueError", routers |-> <<>>]
             ELSE init_routers(mode, given.routers)

\* the items of a routers argument
RouterItems ==
    {RouterItem("APIRouter", "dims", EmptyDict), RouterItem("str", "not_a_router", EmptyDict)}
    \cup {RouterItem("tuple", "dims", kw) :
            kw \in {EmptyDict, [prefix |-> "/foo"], [prefix |-> "/foo", tags |-> "t"]}}

RouterCalls ==
    {[fn |-> "Rest.app", mode |-> m, routers |-> r] :
        m \in {"collection", "single"},
        r \in {<<>>} \cup SeqsUpTo(RouterItems, MaxRouters)}

UnitCalls == EncodeChunkCalls \cup FillValueCalls \cup RouterCalls

InitUnit ==
    /\ ServerIdle
    /\ MetaIdle
    /\ ChunkIdle
    /\ ConcIdle
    /\ accessor = <<>>
    /\ manager = <<>>
    /\ \E call \in UnitCalls : pin = <<call>>
    /\ pout = <<>>

UnitFrame == UNCHANGED <<serverVars, metaVars, chunkVars, concVars, pin, accessor, manager>>

CallEncodeChunk ==
    /\ pout = <<>>
    /\ pin[1].fn = "encode_chunk"
    /\ pout' = <<encode_chunk(pin[1].chunk, pin[1].filters, pin[1].compressor)>>
    /\ UnitFrame

CallEncodeFillValue ==
    /\ pout = <<>>
    /\ pin[1].fn = "encode_fill_value"
    /\ pout' = <<encode_fill_value(pin[1].v, pin[1].dtype)>>
    /\ UnitFrame

\* Rest(datasets, routers=...).app
CallRestApp ==
    /\ pout = <<>>
    /\ pin[1].fn = "Rest.app"
    /\ pout' = <<rest_app_routers(pin[1].mode, pin[1].routers)>>
    /\ UnitFrame

NextUnit ==
    \/ CallEncodeChunk
    \/ CallEncodeFillValue
    \/ CallRestApp

SpecUnit == InitUnit /\ [][NextUnit]_vars

UnitCalled(fn) == pin # <<>> /\ pin[1].fn = fn /\ pout # <<>>

(***************************************************************************)
(* C21: encode_chunk applies the filters in list order, then the           *)
(* compressor; without filters and compressor the chunk comes back         *)
(* unchanged; and it raises RuntimeError, returning nothing, exactly when  *)
(* the buffer still has object dtype after the filters have encoded it     *)
(* (an object buffer whose filters include an object codec is encoded).    *)
(***************************************************************************)
GivenFilters == IF pin[1].filters = <<>> THEN <<>> ELSE pin[1].filters[1]
GivenCompressor ==
    IF pin[1].compressor = None THEN <<>> ELSE <<pin[1].compressor>>
ObjectLeft ==
    /\ pin[1].chunk.dtype = "object"
    /\ \A i \in 1..Len(GivenFilters) : GivenFilters[i] \notin ObjectCodecs

C21_FiltersInOrderThenCompressor ==
    UnitCalled("encode_chunk") =>
        IF ObjectLeft
        THEN ~pout[1].ok /\ pout[1].exc = "RuntimeError" /\ pout[1].value = <<>>
        ELSE /\ pout[1].ok
             /\ pout[1].value[1].data = pin[1].chunk.data
             /\ pout[1].value[1].codecs = GivenFilters \o GivenCompressor
             /\ (GivenFilters = <<>> /\ GivenCompressor = <<>>)
                    => pout[1].value[1] = pin[1].chunk

\* an object buffer encoded by two filters, the object codec last, and the
\* compressor
C21_Witness ==
    /\ UnitCalled("encode_chunk")
    /\ pin[1].chunk.dtype = "object"
    /\ pin[1].filters = <<<<"Delta()", "VLenUTF8()">>>>
    /\ pin[1].compressor = default_compressor
    /\ pout[1].ok
    /\ pout[1].value[1].codecs = <<"Delta()", "VLenUTF8()", "Blosc()">>

\* C21 as stated: every object-dtype buffer makes encode_chunk raise
C21_ObjectBufferAlwaysRaises ==
    (UnitCalled("encode_chunk") /\ pin[1].chunk.dtype = "object") => ~pout[1].ok

(***************************************************************************)
(* C22: encode_fill_value maps None to null, an integral value to a plain  *)
(* integer, a floating value to a plain float except NaN, +Infinity and    *)
(* -Infinity to the strings "NaN", "Infinity" and "-Infinity", a complex   *)
(* value to the pair of its encoded real and imaginary parts, and a        *)
(* datetime or timedelta value to the plain integer of its 64-bit view.    *)
(***************************************************************************)
FloatRule(f) ==
    CASE f = "nan" -> JStr("NaN")
      [] f = "inf" -> JStr("Infinity")
      [] f = "-inf" -> JStr("-Infinity")
      [] OTHER -> JFloat(f)

C22_FillValueByKind ==
    UnitCalled("encode_fill_value") =>
        LET v == pin[1].v
            out == pout[1]
        IN  CASE v.t = "NoneType" -> out.ok /\ out.value = <<JNull>>
              [] v.t = "int64" -> out.ok /\ out.value = <<JInt(v.v)>>
              [] v.t = "float64" -> out.ok /\ out.value = <<FloatRule(v.v)>>
              [] v.t = "complex128" ->
                    out.ok /\ out.value = <<JList(<<FloatRule(v.re), FloatRule(v.im)>>)>>
              [] v.t \in {"datetime64", "timedelta64"} ->
                    out.ok /\ out.value = <<JInt(v.i8)>>
              [] OTHER -> TRUE

\* the datetime64 fill value 1970-01-02 (unit D) encoded as the integer 1
C22_Witness ==
    /\ UnitCalled("encode_fill_value")
    /\ pin[1].v.t = "datetime64"
    /\ pin[1].v.v = "1970-01-02"
    /\ pout[1].value = <<JInt("1")>>

\* C22 as stated: a datetime fill value is encoded as its ISO-8601 string
C22_DatetimeAsIsoString ==
    (UnitCalled("encode_fill_value") /\ pin[1].v.t = "datetime64")
        => pout[1].value = <<JStr(pin[1].v.v)>>

(***************************************************************************)
(* SpecAccessor: the 'rest' accessor of one dataset object                 *)
(* (xpublish/accessor.py).  The accessor holds _initialized and _rest; a   *)
(* SingleDatasetRest is [id, _app_kws, _cache_kws, _app, _cache], with     *)
(* _app and _cache None (<<>>) until first read.                           *)
(***************************************************************************)
\* the app_kws argument: None, or keyword arguments of FastAPI
AppKwsGiven == {<<>>, <<[foo |-> "bar"]>>}

\* Rest.init_app_kwargs: the empty dict updated with the given kwargs
init_app_kwargs(app_kws) == IF app_kws = <<>> THEN EmptyDict ELSE app_kws[1]

\* keyword arguments of ds.rest(...); unknown: a keyword that
\* SingleDatasetRest.__init__ does not take
AccessorKwargs ==
    [app_kws : AppKwsGiven, cache_kws : CacheKwsGiven, unknown : BOOLEAN]

\* SingleDatasetRest(self._obj, **kwargs), the n-th Rest object made
SingleDatasetRest(n, kwargs) ==
    [id |-> n, _app_kws |-> init_app_kwargs(kwargs.app_kws),
     _cache_kws |-> init_cache_kwargs(kwargs.cache_kws),
     _app |-> <<>>, _cache |-> <<>>]

NoKwargs == [app_kws |-> <<>>, cache_kws |-> <<>>, unknown |-> FALSE]

\* RestAccessor.__init__
NewAccessor ==
    [_initialized |-> FALSE, _rest |-> <<>>, made |-> 0, n |-> 0,
     op |-> "none", given |-> <<>>, exc |-> None]

\* the operation just done, logged: its name, its arguments, what it raised
Done(acc, op, exc) ==
    [acc EXCEPT !.n = @ + 1, !.op = op, !.given = <<>>, !.exc = exc]

\* RestAccessor.__call__ without the _initialized test
RestAccessorCall_NoGuard(acc, kwargs) ==
    IF kwargs.unknown
    THEN Done([acc EXCEPT !._initialized = TRUE], "__call__", "TypeError")
    ELSE Done([acc EXCEPT !._initialized = TRUE,
                          !._rest = <<SingleDatasetRest(acc.made + 1, kwargs)>>,
                          !.made = @ + 1], "__call__", None)

\* RestAccessor.__call__(**kwargs)
RestAccessorCall(acc, kwargs) ==
    IF acc._initialized
    THEN Done(acc, "__call__", "RuntimeError")
    ELSE IF kwargs.unknown
         THEN Done([acc EXCEPT !._initialized = TRUE], "__call__", "TypeError")
         ELSE Done([acc EXCEPT !._initialized = TRUE,
                               !._rest = <<SingleDatasetRest(acc.made + 1, kwargs)>>,
                               !.made = @ + 1], "__call__", None)

\* RestAccessor._get_rest_obj
get_rest_obj(acc) ==
    IF acc._rest = <<>>
    THEN [acc EXCEPT !._rest = <<SingleDatasetRest(acc.made + 1, NoKwargs)>>,
                     !.made = @ + 1]
    ELSE acc

\* RestAccessor.app: the Rest object's FastAPI application, made on first read
RestAccessorApp(acc) ==
    LET a == get_rest_obj(acc)
    IN  Done([a EXCEPT !._rest[1]._app =
                 IF @ = <<>> THEN <<[kws |-> a._rest[1]._app_kws]>> ELSE @],
             "app", None)

\* RestAccessor.cache: the Rest object's cachey.Cache, made on first read
RestAccessorCache(acc) ==
    LET a == get_rest_obj(acc)
    IN  Done([a EXCEPT !._rest[1]._cache =
                 IF @ = <<>> THEN <<[kws |-> a._rest[1]._cache_kws]>> ELSE @],
             "cache", None)

InitAccessor ==
    /\ ServerIdle
    /\ MetaIdle
    /\ ChunkIdle
    /\ ConcIdle
    /\ pin = <<>>
    /\ pout = <<>>
    /\ manager = <<>>
    /\ accessor = NewAccessor

AccessorFrame ==
    UNCHANGED <<serverVars, metaVars, chunkVars, concVars, pin, pout, manager>>

AccessorCall ==
    /\ accessor.n < MaxOps
    /\ \E kwargs \in AccessorKwargs :
         accessor' = [RestAccessorCall(accessor, kwargs) EXCEPT !.given = <<kwargs>>]
    /\ AccessorFrame

AccessorApp ==
    /\ accessor.n < MaxOps
    /\ accessor' = RestAccessorApp(accessor)
    /\ AccessorFrame

AccessorCache ==
    /\ accessor.n < MaxOps
    /\ accessor' = RestAccessorCache(accessor)
    /\ AccessorFrame

NextAccessor ==
    \/ AccessorCall
    \/ AccessorApp
    \/ AccessorCache

SpecAccessor == InitAccessor /\ [][NextAccessor]_vars

(***************************************************************************)
(* C23: the accessor is initialized by __call__ at most once: a call on an *)
(* accessor not yet called, with keyword arguments SingleDatasetRest       *)
(* takes, succeeds and installs a Rest object with those settings; every   *)
(* later call raises RuntimeError and leaves the accessor's Rest object    *)
(* (its app and cache settings, its app and its cache) unchanged.          *)
(***************************************************************************)
CallStep == accessor'.n = accessor.n + 1 /\ accessor'.op = "__call__"

C23_SecondCallRaisesAndKeepsRest ==
    [][CallStep =>
        IF accessor._initialized
        THEN /\ accessor'.exc = "RuntimeError"
             /\ accessor'._rest = accessor._rest
             /\ accessor'._initialized
        ELSE /\ accessor'._initialized
             /\ accessor'.exc = None <=> ~accessor'.given[1].unknown
             /\ accessor'.exc = None =>
                   /\ accessor'._rest # <<>>
                   /\ accessor'._rest # accessor._rest
                   /\ accessor'._rest[1]._app = <<>>
                   /\ accessor'._rest[1]._cache = <<>>
                   /\ accessor'._rest[1]._app_kws =
                         init_app_kwargs(accessor'.given[1].app_kws)
                   /\ accessor'._rest[1]._cache_kws =
                         init_cache_kwargs(accessor'.given[1].cache_kws)]_vars

\* a second call refused after the first call configured the Rest object and
\* its application was made
C23_Witness ==
    /\ accessor # <<>>
    /\ accessor.op = "__call__"
    /\ accessor.exc = "RuntimeError"
    /\ accessor.given[1].app_kws = <<>>
    /\ accessor._rest # <<>>
    /\ accessor._rest[1]._app_kws = [foo |-> "bar"]
    /\ accessor._rest[1]._app # <<>>

(***************************************************************************)
(* SpecPlugins: Rest.register_plugin on the plugin manager of one Rest     *)
(* instance (xpublish/rest.py).  The manager's registry (pluggy's          *)
(* _name2plugin) is a dict from plugin name to plugin object.              *)
(***************************************************************************)
\* initialized plugins: two DatasetInfoPlugin objects named 'dataset_info'
\* and one named 'meta'
PluginObjects == {"info1", "info2", "meta1"}
PluginNameOf(plugin) == IF plugin = "meta1" THEN "meta" ELSE "dataset_info"
\* a Plugin subclass handed over without being instantiated: it has no name
PluginClass == "TestPlugin"

RegisterArgs ==
    [plugin : PluginObjects, plugin_name : {None, "dataset_info", "meta"},
     overwrite : BOOLEAN]
    \cup [plugin : {PluginClass}, plugin_name : {None}, overwrite : BOOLEAN]

\* pluggy's PluginManager.register binding the name without looking at the
\* registry
pm_register_Rebinds(registry, plugin, name) ==
    [ok |-> TRUE, exc |-> None, registry |-> DictSet(registry, name, plugin)]

\* pluggy's PluginManager.register(plugin, name)
pm_register(registry, plugin, name) ==
    IF name \in DOMAIN registry
    THEN [ok |-> FALSE, exc |-> "ValueError", registry |-> registry]
    ELSE IF \E k \in DOMAIN registry : registry[k] = plugin
         THEN [ok |-> FALSE, exc |-> "ValueError", registry |-> registry]
         ELSE [ok |-> TRUE, exc |-> None, registry |-> DictSet(registry, name, plugin)]

\* Rest.register_plugin(plugin, plugin_name, overwrite): the registry
\* afterwards, what the call raised, and the plugins whose register_hookspec
\* results were added to the manager
register_plugin(registry, plugin, plugin_name, overwrite) ==
    IF plugin_name = None /\ plugin = PluginClass
    THEN [exc |-> "AttributeError", registry |-> registry, hookspecs |-> {}]
    ELSE LET name == IF plugin_name # None THEN plugin_name ELSE PluginNameOf(plugin)
             cleared == IF overwrite /\ name \in DOMAIN registry
                        THEN DictPop(registry, name)
                        ELSE registry
             reg == pm_register(cleared, plugin, name)
         IN  [exc |-> reg.exc, registry |-> reg.registry,
              hookspecs |-> IF reg.ok THEN {plugin} ELSE {}]

\* the plugins argument of Rest(...), registered by setup_plugins
PluginsGiven == {EmptyDict, [n \in {"dataset_info"} |-> "info1"]}

InitPlugins ==
    /\ ServerIdle
    /\ MetaIdle
    /\ ChunkIdle
    /\ ConcIdle
    /\ pin = <<>>
    /\ pout = <<>>
    /\ accessor = <<>>
    /\ \E given \in PluginsGiven :
         manager = [registry |-> given, lastOk |-> given,
                    hookspecs |-> {given[k] : k \in DOMAIN given}, n |-> 0,
                    args |-> <<>>, exc |-> None]

\* one call of rest.register_plugin; lastOk remembers, per name, the plugin of
\* the last call that returned
RegisterPlugin ==
    /\ manager.n < MaxOps
    /\ \E a \in RegisterArgs :
         LET out == register_plugin(manager.registry, a.plugin, a.plugin_name,
                                    a.overwrite)
             name == IF a.plugin_name # None THEN a.plugin_name
                     ELSE PluginNameOf(a.plugin)
         IN  manager' = [registry |-> out.registry,
                         lastOk |-> IF out.exc = None
                                    THEN DictSet(manager.lastOk, name, a.plugin)
                                    ELSE manager.lastOk,
                         hookspecs |-> manager.hookspecs \cup out.hookspecs,
                         n |-> manager.n + 1, args |-> <<a>>, exc |-> out.exc]
    /\ UNCHANGED <<serverVars, metaVars, chunkVars, concVars, pin, pout, accessor>>

NextPlugins == RegisterPlugin

SpecPlugins == InitPlugins /\ [][NextPlugins]_vars

(***************************************************************************)
(* C24: registering under a name already registered raises ValueError and  *)
(* keeps the existing plugin when overwrite is False; with overwrite=True  *)
(* a call that returns has unregistered the existing plugin of that name   *)
(* and registered the new one under it; and every registered name holds    *)
(* the plugin of the last successful registration for that name.           *)
(***************************************************************************)
RegisterStep == manager'.n = manager.n + 1
RegisteredName ==
    IF manager'.args[1].plugin_name # None THEN manager'.args[1].plugin_name
    ELSE PluginNameOf(manager'.args[1].plugin)
NameTaken ==
    /\ manager'.args[1].plugin # PluginClass
    /\ RegisteredName \in DOMAIN manager.registry

C24_DuplicateNameRaisesOverwriteReplaces ==
    [][RegisterStep =>
        /\ (NameTaken /\ ~manager'.args[1].overwrite) =>
              /\ manager'.exc = "ValueError"
              /\ manager'.registry = manager.registry
        /\ (NameTaken /\ manager'.args[1].overwrite /\ manager'.exc = None) =>
              /\ manager'.registry[RegisteredName] = manager'.args[1].plugin
              /\ \A k \in DOMAIN manager'.registry :
                    manager'.registry[k] = manager.registry[RegisteredName]
                       => manager'.args[1].plugin = manager.registry[RegisteredName]
        /\ \A k \in DOMAIN manager'.registry :
              /\ k \in DOMAIN manager'.lastOk
              /\ manager'.registry[k] = manager'.lastOk[k]]_vars

\* 'dataset_info' re-registered with overwrite=True: the second plugin object
\* replaced the first
C24_Witness ==
    /\ manager # <<>>
    /\ manager.n > 0
    /\ manager.args[1] = [plugin |-> "info2", plugin_name |-> None, overwrite |-> TRUE]
    /\ manager.exc = None
    /\ manager.registry = [n \in {"dataset_info"} |-> "info2"]

(***************************************************************************)
(* C30: register_plugin is all-or-nothing: a call that raises leaves the   *)
(* registered (name, plugin) pairs as they were before the call.           *)
(***************************************************************************)
C30_FailedRegistrationChangesNothing ==
    [][(RegisterStep /\ manager'.exc # None)
          => manager'.registry = manager.registry]_vars

(***************************************************************************)
(* C25: a dataset id is resolved in this order: the dataset a plugin's     *)
(* get_dataset hook returns for it (anything other than None), else the    *)
(* dataset stored under the id in the mapping given at initialization,     *)
(* else the request fails with HTTP 404.                                   *)
(***************************************************************************)
Refused404 == last.status = 404 /\ last.raisedIn = "get_dataset"

C25_PluginThenMappingThen404 ==
    (rest # <<>> /\ rest.mode = "collection" /\ last.kind # "none") =>
        LET r == get_dataset_from_plugins(last.id)
        IN  IF last.id \in DOMAIN PluginDatasets
            THEN r.ok /\ r.dataset = PluginDatasets[last.id] /\ ~Refused404
            ELSE IF last.id \in DOMAIN rest.datasets
                 THEN r.ok /\ r.dataset = rest.datasets[last.id] /\ ~Refused404
                 ELSE ~r.ok /\ Refused404

(***************************************************************************)
(* C26: normalize_datasets stores every dataset of the mapping under the   *)
(* string id str(k) of its key, carrying that string id as its             *)
(* '_xpublish_id' attribute, so that get_zvariables and get_zmetadata      *)
(* build their cache keys from the string id.                              *)
(***************************************************************************)
C26_IdAttributeIsTheStringId ==
    (rest # <<>> /\ rest.mode = "collection") =>
        /\ DOMAIN rest.datasets = {PyStr(k) : k \in DOMAIN GivenDatasets}
        /\ \A id \in DOMAIN rest.datasets :
              /\ rest.datasets[id].attrs[DATASET_ID_ATTR_KEY] = id
              /\ IdPrefixOk(rest.datasets[id])
              /\ IdPrefix(rest.datasets[id]) = id
        /\ (last.kind # "none" /\ last.id \in DOMAIN rest.datasets)
              => last.raisedIn # "get_zvariables"

(***************************************************************************)
(* C27: when Rest serves a mapping of datasets, every router of the        *)
(* routers argument is mounted under '/datasets/{dataset_id}' followed by  *)
(* its own prefix: the dataset prefix is applied exactly once.             *)
(***************************************************************************)
\* the mounted routers that came from the routers argument: the last ones
GivenMounted(i) == pout[1].routers[Len(pout[1].routers) - Len(pin[1].routers) + i]

C27_DatasetPrefixAppliedOnce ==
    (UnitCalled("Rest.app") /\ pin[1].mode = "collection" /\ pout[1].ok) =>
        \A i \in 1..Len(pin[1].routers) :
            /\ GivenMounted(i).router = pin[1].routers[i].router
            /\ KwargsPrefix(GivenMounted(i).kwargs) =
                  "/datasets/{dataset_id}" \o KwargsPrefix(pin[1].routers[i].kwargs)

(***************************************************************************)
(* C28: once the consolidated metadata of a dataset is cached, no request  *)
(* handler modifies it: over every request a document that stays resident  *)
(* under a dataset's own key keeps its value, every cached '{var}/.zattrs' *)
(* still holds '_ARRAY_DIMENSIONS', every cached '{var}/.zarray' still     *)
(* holds its codec objects, and an /info request that follows an /info     *)
(* request for the same dataset, one that caches under its own key,        *)
(* returns the same body.                                                  *)
(***************************************************************************)
\* the dataset caches under a key of its own: the single dataset, or a
\* dataset of the mapping
OwnKey(id) ==
    \/ rest.mode = "single"
    \/ id \in DOMAIN rest.datasets /\ id \notin DOMAIN PluginDatasets

\* the keys under which one dataset alone caches its document: the single
\* dataset's, or those of the datasets of the mapping (the datasets plugins
\* return share the key '/.zmetadata', where one's document may be retired
\* and another's put in one request)
OwnDocumentKeys ==
    IF rest.mode = "single" THEN {"/" \o ZARR_METADATA_KEY}
    ELSE {id \o "/" \o ZARR_METADATA_KEY : id \in DOMAIN rest.datasets}

CachedDocuments(c) ==
    {k \in DOMAIN c : \E id \in {"", "a", "bad", "1"} : k = id \o "/" \o ZARR_METADATA_KEY}

DocumentIntact(doc) ==
    \A var \in RequestVars :
        /\ (var \o "/" \o attrs_key) \in DOMAIN doc
              => "_ARRAY_DIMENSIONS" \in DOMAIN doc[var \o "/" \o attrs_key]
        /\ (var \o "/" \o array_meta_key) \in DOMAIN doc
              => /\ doc[var \o "/" \o array_meta_key].compressor = default_compressor
                 /\ doc[var \o "/" \o array_meta_key].filters = <<>>

C28_HandlersLeaveCachedMetadata ==
    [][/\ \A k \in DOMAIN cache \cap DOMAIN cache' \cap OwnDocumentKeys :
               cache'[k].value = cache[k].value
       /\ \A k \in CachedDocuments(cache') : DocumentIntact(cache'[k].value)
       /\ (last.kind = "info" /\ last'.kind = "info" /\ last'.id = last.id
            /\ OwnKey(last.id) /\ last.status = 200)
              => (last'.status = 200 /\ last'.body = last.body)]_vars

\* an /info request answered from the cached document
C28_Witness ==
    /\ last.kind = "info"
    /\ OwnKey(last.id)
    /\ last.status = 200
    /\ ~last.built
    /\ "x" \in DOMAIN last.body[1].variables
    /\ "_ARRAY_DIMENSIONS" \notin DOMAIN last.body[1].variables["x"].attributes
    /\ CachedDocuments(cache) # {}

(***************************************************************************)
(* C29: the array descriptor returned by GET /{var}/.zarray equals the     *)
(* '{var}/.zarray' entry of the document GET /.zmetadata returns for the   *)
(* same dataset: compressor and filters are plain-data configurations.     *)
(***************************************************************************)
C29_ZarrayMatchesConsolidatedEntry ==
    (last.kind = "chunk" /\ IsSubSeq(array_meta_chars, last.chunk)
     /\ last.status = 200) =>
        \A out \in get_zarr_metadata(get_dataset(last.id).dataset, cache) :
            out.status = 200 =>
                last.body[1] = out.body[1][last.var \o "/" \o array_meta_key]
====
